---- MODULE Spec2Model ----
(***************************************************************************)
(* Model of the media-tracker client synchronisation layer:               *)
(*   - the local cache of entries per list (src/lib/storage.ts),          *)
(*   - the mutation calls addEntry / updateEntry / deleteEntry,           *)
(*   - the full fetch syncEntriesFromCloud,                               *)
(*   - the background pull performSync / syncAll (sync.ts, sync-manager), *)
(*   - the triggers of the pull: the hook's effect, the timer, the        *)
(*     visibility and focus handlers (sync-manager),                      *)
(*   - the mutations other devices make through the same endpoints,       *)
(*   - the remote endpoints they talk to (the api/entries handlers),      *)
(*   - the token-refreshing fetch wrapper authenticatedFetch and          *)
(*     authSignout (api.ts),                                              *)
(*   - the parsing of a stored list by loadEntries (storage.ts),          *)
(*   - the backup to a GitHub gist: mergeEntries, the token and pending   *)
(*     flag, createGist / updateGist (gist.ts),                           *)
(*   - the listeners of a list: subscribeToEntries (storage.ts),          *)
(*   - the server's refresh tokens: the login, signout and refresh        *)
(*     handlers (api/auth).                                               *)
(* JavaScript is single threaded: every action below is the code that     *)
(* runs between two awaits of one async function, or one request handled  *)
(* by the server.                                                          *)
(***************************************************************************)
EXTENDS Integers, Sequences, FiniteSets, TLC

\* ---------------------------------------------------------------- bounds
\* number of client operations (mutation calls, full fetches, syncAll runs)
\* started in one behaviour
MaxOps == 2
\* number of mutation calls that can be awaiting their response at once
MaxCalls == 1
\* number of syncAll runs that can be awaiting a response at once
MaxSyncs == 2
\* number of syncEntriesFromCloud calls awaiting a response at once
MaxFetches == 1
\* number of authenticatedFetch calls in progress at once
MaxAf == 2
\* number of tokens the server issues in one behaviour
MaxTokens == 3
\* number of sync-manager events (hook effects, timer ticks, visibility
\* changes, focus events) in one behaviour
MaxEvents == 4
\* number of syncAll runs and of mutations by other devices in one
\* behaviour of the pull specification
MaxPullOps == 3
\* number of operations (syncAll runs, addEntry calls, mutations by other
\* devices) in one behaviour of the pull specification with local creates
\* (an addEntry call is among the first MaxOps, a mutation by another
\* device among the first MaxPullOps)
MaxMixOps == 4
\* number of records in an array given to mergeEntries
MaxMergeLen == 2
\* number of elements of an array stored under a list's key
MaxItemLen == 2
\* number of pushes to the backup store awaiting a response at once
MaxPushes == 1
\* number of backup events (sign-ins, sign-outs, expiries of the token,
\* pushes, application starts) in one behaviour
MaxPushOps == 4
\* number of subscribe and unsubscribe calls and mutations in one behaviour
\* of the subscription specification
MaxSubOps == 4
\* number of requests to the auth endpoints and of clock ticks in one
\* behaviour of the server's token specification
MaxSrvOps == 6
\* time units a row of refresh_tokens lasts (expires_at is 7 days after
\* the login)
DbLife == 1

\* ---------------------------------------------------------------- types
ListTypes == {"backlog", "futurelog"}
Titles == {"Dune", "Alien"}
CallIds == 1..MaxCalls
SyncIds == 1..MaxSyncs
FetchIds == 1..MaxFetches
AfIds == 1..MaxAf
PushIds == 1..MaxPushes

\* slots are interchangeable: an operation starts in the first free one
FirstFree(slots, ids, i) == \A j \in ids : j < i => slots[j].pc # "idle"

\* the argument lists syncAll is called with: one list (and the onSync
\* callback) from the hook's startBackgroundSync([listType], ..), both lists
\* (and no callback) from the visibility and focus handlers
SyncListArgs == {<<"backlog">>, <<"futurelog">>, <<"backlog", "futurelog">>}

VARIABLES
  db,            \* server: rows of table media_entries
  nextId,        \* server: next identifier the database issues
  clock,         \* server: NOW()
  cache,         \* client: localStorage record array of each list
  lastSyncTime,  \* client: lastSyncTime of the sync state (0 is null)
  deviceId,      \* client: deviceId of the sync state (0: no sync state is stored)
  calls,         \* client: addEntry/updateEntry/deleteEntry calls
  syncs,         \* client: syncAll runs
  fetches,       \* client: syncEntriesFromCloud calls
  notified,      \* lists whose listeners were invoked by the last step
  ops,           \* number of client operations started so far
  outcome,       \* what the last step returned or threw to a mutation's caller
  accessToken,   \* client: localStorage media_logbook_access_token
  refreshToken,  \* client: localStorage media_logbook_refresh_token
  nextTok,       \* server: next token it issues
  af,            \* client: authenticatedFetch calls
  isPageVisible, \* sync-manager: module variable isPageVisible
  hidden,        \* host: document.hidden
  syncInterval,  \* sync-manager: the polling timer is set (syncInterval is not null)
  bgLists,       \* sync-manager: listTypes captured by the timer's closure
  timers,        \* window: number of intervals set and not cleared
  visListeners,  \* document: number of registered visibilitychange listeners
  trigger,       \* the sync-manager entry point the last step ran
  pullOutcome,   \* how the iteration of syncAll's loop run by the last step ended
  modifiedAt,    \* server: when each row was last written (not a column)
  pulled,        \* lists a pull of which has returned successfully
  signingOut,    \* client: authSignout awaits the answer of /auth/signout
  localBacklog,  \* mergeGistData: the records of this device
  remoteBacklog, \* mergeGistData: the records of the backup snapshot
  mergedBacklog, \* mergeGistData: the array mergeEntries returned last
  mergePc,       \* which application of mergeEntries the last step was
  storedItem,    \* loadEntries: the localStorage item under the list's key
  loaded,        \* loadEntries: the array it returned
  loadPc,        \* whether loadEntries has run
  listeners,     \* client: listenersByList, the wrapped callbacks of each list
  callbacks,     \* every wrapped callback subscribeToEntries has created
  delivered,     \* the callback the last subscribeToEntries invoked, and its argument
  kept,          \* entries whose addEntry returned and for which no deleteEntry was called
  deleted,       \* identifiers whose deleteEntry returned
  githubToken,   \* client: sessionStorage github-token ("none" or "stored")
  tokenExpiry,   \* client: sessionStorage github-token-expiry (0 is absent)
  now,           \* Date.now() as the backup code reads it
  gistId,        \* client: localStorage gist-id (0 is null)
  syncPending,   \* client: localStorage sync-pending is 'true'
  gists,         \* backup store: number of gists created
  pushes,        \* client: pushes of the local state to the backup store
  lastPush,      \* how the push attempt that ended last ended
  refresh_tokens, \* server: the refresh tokens issued and their rows in the table
  srvNow,        \* server: NOW() / new Date()
  refreshCall,   \* server: the refresh request being handled
  response       \* server: the last response of an auth endpoint

mgrVars == <<isPageVisible, hidden, syncInterval, bgLists, timers, visListeners>>
pureVars == <<localBacklog, remoteBacklog, mergedBacklog, mergePc, storedItem, loaded, loadPc>>
subVars == <<listeners, callbacks, delivered, kept, deleted>>
gistVars == <<githubToken, tokenExpiry, now, gistId, syncPending, gists, pushes, lastPush>>
storeVars == <<db, nextId, clock, cache, lastSyncTime, deviceId, calls, syncs, fetches, notified, outcome, ops,
               isPageVisible, hidden, syncInterval, bgLists, timers, visListeners, trigger, pullOutcome, modifiedAt, pulled>>
authVars == <<accessToken, refreshToken, nextTok, af, signingOut>>
srvVars == <<refresh_tokens, srvNow, refreshCall, response>>
vars == <<db, nextId, clock, cache, lastSyncTime, deviceId, calls, syncs, fetches, notified, outcome, ops,
          accessToken, refreshToken, nextTok, af,
          isPageVisible, hidden, syncInterval, bgLists, timers, visListeners, trigger, pullOutcome, modifiedAt, pulled,
          signingOut, localBacklog, remoteBacklog, mergedBacklog, mergePc, storedItem, loaded, loadPc,
          listeners, callbacks, delivered, kept, deleted,
          githubToken, tokenExpiry, now, gistId, syncPending, gists, pushes, lastPush,
          refresh_tokens, srvNow, refreshCall, response>>

\* ------------------------------------------------------------- sequences
Range(s) == {s[i] : i \in 1..Len(s)}

Ids(s) == {s[i].id : i \in 1..Len(s)}

\* Array.prototype.filter(e => e.id !== id)
FilterOutId(s, id) == SelectSeq(s, LAMBDA e : e.id # id)

\* Array.prototype.findIndex(e => e.id === id), 0 when absent (-1 in JS)
FindIndex(s, id) ==
  IF \E i \in 1..Len(s) : s[i].id = id
  THEN CHOOSE i \in 1..Len(s) : s[i].id = id /\ \A j \in 1..(i-1) : s[j].id # id
  ELSE 0

\* Map.prototype.set on a Map kept as the sequence of its values in
\* insertion order: an existing key keeps its position
MapSet(m, e) ==
  IF FindIndex(m, e.id) # 0 THEN [m EXCEPT ![FindIndex(m, e.id)] = e]
  ELSE Append(m, e)

\* new Map(existing.map(e => [e.id, e])), then entryMap.set for each entry
RECURSIVE MapSetAll(_, _)
MapSetAll(m, es) ==
  IF es = <<>> THEN m ELSE MapSetAll(MapSet(m, Head(es)), Tail(es))

\* SELECT ... ORDER BY created_at DESC: identifiers are issued in creation
\* order, so the newest row is the one with the largest identifier
RECURSIVE OrderByCreatedDesc(_)
OrderByCreatedDesc(rows) ==
  IF rows = {} THEN <<>>
  ELSE LET top == CHOOSE r \in rows : \A q \in rows : q.id <= r.id
       IN <<top>> \o OrderByCreatedDesc(rows \ {top})

\* SELECT ... ORDER BY updated_at DESC (ties broken by identifier)
RECURSIVE OrderByUpdatedDesc(_)
OrderByUpdatedDesc(rows) ==
  IF rows = {} THEN <<>>
  ELSE LET top == CHOOSE r \in rows : \A q \in rows :
                     \/ q.updatedAt < r.updatedAt
                     \/ (q.updatedAt = r.updatedAt /\ q.id <= r.id)
       IN <<top>> \o OrderByUpdatedDesc(rows \ {top})

\* ------------------------------------------------------------ the server
NoEntry == [id |-> 0, list |-> "none", title |-> "none", updatedAt |-> 0]

\* rows of one list, WHERE list_type = listType
RowsOf(l) == {r \in db : r.list = l}

\* INSERT INTO media_entries ... RETURNING *: the database issues the
\* identifier and stamps updated_at with DEFAULT NOW()
InsertedRow(l, t) == [id |-> nextId, list |-> l, title |-> t, updatedAt |-> clock + 1]

\* UPDATE media_entries SET title = .. WHERE id = .. RETURNING *: the
\* statement sets the named fields only
UpdatedRow(r, t) == [r EXCEPT !.title = t]

\* UPDATE media_entries SET list_type = .. WHERE id = .. RETURNING *
MovedRow(r, l) == [r EXCEPT !.list = l]

\* variant of SyncRows that answers every request with all rows of the list
SyncRows_IgnoreSince(l, since) == OrderByCreatedDesc(RowsOf(l))

\* GET /entries/sync: all rows of the list when since is absent, otherwise
\* the rows with updated_at > since
SyncRows(l, since) ==
  IF since = 0 THEN OrderByCreatedDesc(RowsOf(l))
  ELSE OrderByUpdatedDesc({r \in RowsOf(l) : r.updatedAt > since})

\* ------------------------------------------------------------ the client
\* a mutation call; toList is the list named by the updates of an update
\* call ("none" when they name the title); error is the error member of
\* the answer ("" when it has none), requests counts the requests of the
\* call the server has handled
IdleCall ==
  [pc |-> "idle", op |-> "none", list |-> "none", id |-> 0, title |-> "none",
   toList |-> "none", resp |-> "none", entry |-> NoEntry, error |-> "", requests |-> 0]

\* the message of the catch branch of an endpoint (500), which is also the
\* message of the catch branch of api.ts and the fallback of storage.ts
FailedTo(op) ==
  CASE op = "create" -> "Failed to create entry"
    [] op = "update" -> "Failed to update entry"
    [] OTHER -> "Failed to delete entry"

\* the message of the 400 answer of an endpoint
BadRequest(op) ==
  CASE op = "create" -> "Missing required fields"
    [] op = "update" -> "Missing id or updates"
    [] OTHER -> "Missing id"

\* the message of the 404 answer of the update and delete endpoints
NotFound == "Entry not found"

\* no sync state is stored
NoDevice == "none"

\* the last step ran no iteration of syncAll's loop to its end
NoPull == [list |-> "none", onSync |-> FALSE, result |-> "none", hasNewData |-> FALSE]

\* what the caller of a mutation got from the last step: nothing, or the
\* operation with "ok" (it returned) or "error" (it threw)
NoOutcome ==
  [op |-> "none", list |-> "none", id |-> 0, result |-> "none", error |-> "", requests |-> 0]

\* a syncAll run: the list being pulled, the lists still to pull, whether
\* the run was given an onSync callback, the request and its response
IdleSync ==
  [pc |-> "idle", todo |-> <<>>, list |-> "none", onSync |-> FALSE, since |-> 0,
   resp |-> "none", entries |-> <<>>, serverTime |-> 0, isInitial |-> FALSE]

IdleFetch == [pc |-> "idle", list |-> "none", resp |-> "none", entries |-> <<>>]

\* loadEntries / saveEntries: the record array stored under the list's key
loadEntries(l) == cache[l]

saveEntries(entries, l) == [cache EXCEPT ![l] = entries]

\* an empty table
ServerInit ==
  /\ db = {}
  /\ nextId = 1
  /\ clock = 1
  /\ modifiedAt = <<>>

\* a browser with an empty localStorage in which nothing runs yet
ClientInit ==
  /\ cache = [l \in ListTypes |-> <<>>]
  /\ lastSyncTime = 0
  /\ deviceId = NoDevice
  /\ calls = [c \in CallIds |-> IdleCall]
  /\ syncs = [s \in SyncIds |-> IdleSync]
  /\ fetches = [f \in FetchIds |-> IdleFetch]
  /\ notified = {}
  /\ outcome = NoOutcome
  /\ ops = 0
  /\ isPageVisible = TRUE
  /\ syncInterval = FALSE
  /\ bgLists = <<>>
  /\ timers = 0
  /\ visListeners = 0
  /\ trigger = "none"
  /\ pullOutcome = NoPull
  /\ pulled = {}

StoreInit == ServerInit /\ ClientInit

\* variant of AddEntryCall that inserts the draft into the cache and
\* notifies before the request is answered
AddEntryCall_WriteFirst(c, l, t) ==
  /\ calls[c].pc = "idle"
  /\ FirstFree(calls, CallIds, c)
  /\ ops < MaxOps
  /\ ops' = ops + 1
  /\ calls' = [calls EXCEPT ![c] =
       [IdleCall EXCEPT !.pc = "sent", !.op = "create", !.list = l, !.title = t]]
  /\ cache' = saveEntries(Append(loadEntries(l), [NoEntry EXCEPT !.list = l, !.title = t]), l)
  /\ notified' = {l}
  /\ outcome' = NoOutcome
  /\ trigger' = "none" /\ pullOutcome' = NoPull
  /\ UNCHANGED <<authVars, pureVars, srvVars, subVars, gistVars, mgrVars, pulled, modifiedAt, db, nextId, clock, lastSyncTime, deviceId, syncs, fetches>>

\* ---- addEntry / updateEntry / deleteEntry up to the await of the request
AddEntryCall(c, l, t) ==
  /\ ops < MaxOps
  /\ ops' = ops + 1
  /\ calls[c].pc = "idle"
  /\ FirstFree(calls, CallIds, c)
  /\ calls' = [calls EXCEPT ![c] =
       [IdleCall EXCEPT !.pc = "sent", !.op = "create", !.list = l, !.title = t]]
  /\ notified' = {}
  /\ outcome' = NoOutcome
  /\ trigger' = "none" /\ pullOutcome' = NoPull
  /\ UNCHANGED <<authVars, pureVars, srvVars, subVars, gistVars, mgrVars, pulled, modifiedAt, db, nextId, clock, cache, lastSyncTime, deviceId, syncs, fetches>>

\* the identifier comes from an entry the list shows
UpdateEntryCall(c, l, id, t) ==
  /\ ops < MaxOps
  /\ ops' = ops + 1
  /\ calls[c].pc = "idle"
  /\ FirstFree(calls, CallIds, c)
  /\ id \in Ids(cache[l])
  /\ calls' = [calls EXCEPT ![c] =
       [IdleCall EXCEPT !.pc = "sent", !.op = "update", !.list = l,
                                 !.id = id, !.title = t]]
  /\ notified' = {}
  /\ outcome' = NoOutcome
  /\ trigger' = "none" /\ pullOutcome' = NoPull
  /\ UNCHANGED <<authVars, pureVars, srvVars, subVars, gistVars, mgrVars, pulled, modifiedAt, db, nextId, clock, cache, lastSyncTime, deviceId, syncs, fetches>>

\* updateEntry(id, { list: to }, l): the updates name the list
MoveEntryCall(c, l, id, to) ==
  /\ ops < MaxOps
  /\ ops' = ops + 1
  /\ calls[c].pc = "idle"
  /\ FirstFree(calls, CallIds, c)
  /\ id \in Ids(cache[l])
  /\ calls' = [calls EXCEPT ![c] =
       [IdleCall EXCEPT !.pc = "sent", !.op = "update", !.list = l,
                                 !.id = id, !.toList = to]]
  /\ notified' = {}
  /\ outcome' = NoOutcome
  /\ trigger' = "none" /\ pullOutcome' = NoPull
  /\ UNCHANGED <<authVars, pureVars, srvVars, subVars, gistVars, mgrVars, pulled, modifiedAt, db, nextId, clock, cache, lastSyncTime, deviceId, syncs, fetches>>

DeleteEntryBegin(c, l, id, max) ==
  /\ ops < max
  /\ ops' = ops + 1
  /\ calls[c].pc = "idle"
  /\ FirstFree(calls, CallIds, c)
  /\ id \in Ids(cache[l])
  /\ calls' = [calls EXCEPT ![c] =
       [IdleCall EXCEPT !.pc = "sent", !.op = "delete", !.list = l, !.id = id]]
  /\ kept' = {e \in kept : e.id # id}
  /\ notified' = {}
  /\ outcome' = NoOutcome
  /\ trigger' = "none" /\ pullOutcome' = NoPull
  /\ UNCHANGED <<authVars, pureVars, srvVars, listeners, callbacks, delivered, deleted, gistVars, mgrVars, pulled, modifiedAt, db, nextId, clock, cache, lastSyncTime, deviceId, syncs, fetches>>

\* deleteEntry(id, l) up to the await of the request
DeleteEntryCall(c, l, id) == DeleteEntryBegin(c, l, id, MaxOps)

\* ---- the endpoints
\* POST /entries/create
CreateEndpoint(c) ==
  /\ calls[c].pc = "sent" /\ calls[c].op = "create"
  /\ LET row == InsertedRow(calls[c].list, calls[c].title) IN
       /\ db' = db \cup {row}
       /\ calls' = [calls EXCEPT ![c].pc = "replied", ![c].resp = "ok", ![c].entry = row,
                                 ![c].requests = @ + 1]
  /\ nextId' = nextId + 1
  /\ clock' = clock + 1
  /\ modifiedAt' = Append(modifiedAt, clock + 1)
  /\ notified' = {}
  /\ outcome' = NoOutcome
  /\ trigger' = "none" /\ pullOutcome' = NoPull
  /\ UNCHANGED <<authVars, pureVars, srvVars, subVars, gistVars, mgrVars, pulled, ops, cache, lastSyncTime, deviceId, syncs, fetches>>

\* POST /entries/update: 404 when no row has the identifier.  The row is
\* written at the current time, but the statement sets the named fields
\* only: updated_at keeps its value
UpdateEndpoint(c) ==
  /\ calls[c].pc = "sent" /\ calls[c].op = "update"
  /\ IF \E r \in db : r.id = calls[c].id
     THEN LET r == CHOOSE r \in db : r.id = calls[c].id
              row == IF calls[c].toList = "none" THEN UpdatedRow(r, calls[c].title)
                     ELSE MovedRow(r, calls[c].toList) IN
            /\ db' = (db \ {r}) \cup {row}
            /\ clock' = clock + 1
            /\ modifiedAt' = [modifiedAt EXCEPT ![r.id] = clock + 1]
            /\ calls' = [calls EXCEPT ![c].pc = "replied", ![c].resp = "ok", ![c].entry = row,
                                      ![c].requests = @ + 1]
     ELSE /\ db' = db
          /\ UNCHANGED <<clock, modifiedAt>>
          /\ calls' = [calls EXCEPT ![c].pc = "replied", ![c].resp = "error",
                                    ![c].error = NotFound, ![c].requests = @ + 1]
  /\ notified' = {}
  /\ outcome' = NoOutcome
  /\ trigger' = "none" /\ pullOutcome' = NoPull
  /\ UNCHANGED <<authVars, pureVars, srvVars, subVars, gistVars, mgrVars, pulled, ops, nextId, cache, lastSyncTime, deviceId, syncs, fetches>>

\* POST /entries/delete: 404 when no row has the identifier
DeleteEndpoint(c) ==
  /\ calls[c].pc = "sent" /\ calls[c].op = "delete"
  /\ IF \E r \in db : r.id = calls[c].id
     THEN /\ db' = {r \in db : r.id # calls[c].id}
          /\ calls' = [calls EXCEPT ![c].pc = "replied", ![c].resp = "ok",
                                    ![c].requests = @ + 1]
     ELSE /\ db' = db
          /\ calls' = [calls EXCEPT ![c].pc = "replied", ![c].resp = "error",
                                    ![c].error = NotFound, ![c].requests = @ + 1]
  /\ notified' = {}
  /\ outcome' = NoOutcome
  /\ trigger' = "none" /\ pullOutcome' = NoPull
  /\ UNCHANGED <<authVars, pureVars, srvVars, subVars, gistVars, mgrVars, pulled, modifiedAt, ops, nextId, clock, cache, lastSyncTime, deviceId, syncs, fetches>>

\* an answer that carries { error } and no entry: the catch branch of an
\* endpoint (500) or a 400; nothing is written
CallServerError(c) ==
  /\ calls[c].pc = "sent"
  /\ \E m \in {FailedTo(calls[c].op), BadRequest(calls[c].op)} :
       calls' = [calls EXCEPT ![c].pc = "replied", ![c].resp = "error", ![c].error = m,
                              ![c].requests = @ + 1]
  /\ notified' = {}
  /\ outcome' = NoOutcome
  /\ trigger' = "none" /\ pullOutcome' = NoPull
  /\ UNCHANGED <<authVars, pureVars, srvVars, subVars, gistVars, mgrVars, pulled, modifiedAt, ops, db, nextId, clock, cache, lastSyncTime, deviceId, syncs, fetches>>

\* fetch rejects: the request or its response is lost; the catch of
\* createEntry / updateEntry / deleteEntry in api.ts returns { error }
CallTransportError(c) ==
  /\ calls[c].pc \in {"sent", "replied"}
  /\ calls[c].resp # "network"
  /\ calls' = [calls EXCEPT ![c].pc = "replied", ![c].resp = "network", ![c].entry = NoEntry]
  /\ notified' = {}
  /\ outcome' = NoOutcome
  /\ trigger' = "none" /\ pullOutcome' = NoPull
  /\ UNCHANGED <<authVars, pureVars, srvVars, subVars, gistVars, mgrVars, pulled, modifiedAt, ops, db, nextId, clock, cache, lastSyncTime, deviceId, syncs, fetches>>

\* variant of addEntryCache that pushes whatever the response carries
addEntryCache_PushAlways(entries, resp, entry) == Append(entries, entry)

\* ---- addEntry / updateEntry / deleteEntry after the await
\* addEntry: entries.push(result.entry) when the response carries an entry
addEntryCache(entries, resp, entry) ==
  IF resp = "ok" THEN Append(entries, entry) ELSE entries

\* variant of updateEntryCache that does not look at the response
updateEntryCache_NoCheck(entries, id, resp, entry) ==
  IF FindIndex(entries, id) # 0
  THEN [entries EXCEPT ![FindIndex(entries, id)] = entry]
  ELSE entries

\* updateEntry: entries[index] = result.entry when the response carries an
\* entry and the identifier is in the cache
updateEntryCache(entries, id, resp, entry) ==
  IF resp = "ok" /\ FindIndex(entries, id) # 0
  THEN [entries EXCEPT ![FindIndex(entries, id)] = entry]
  ELSE entries

\* variant of deleteEntryCache that does not look at the response
deleteEntryCache_NoCheck(entries, id, resp) == FilterOutId(entries, id)

\* deleteEntry: entries.filter(e => e.id !== id) when the response is a success
deleteEntryCache(entries, id, resp) ==
  IF resp = "ok" THEN FilterOutId(entries, id) ELSE entries

\* the lists whose listeners the call notifies after its response
addEntryNotifies(l, resp) == IF resp = "ok" THEN {l} ELSE {}

updateEntryNotifies(l, entries, id, resp) ==
  IF resp = "ok" /\ FindIndex(entries, id) # 0 THEN {l} ELSE {}

deleteEntryNotifies(l, resp) == IF resp = "ok" THEN {l} ELSE {}

\* return result.entry, or throw new Error(result.error || 'Failed to ...')
CallOutcome(resp) == IF resp = "ok" THEN "ok" ELSE "error"

\* the error member of what createEntry / updateEntry / deleteEntry of
\* api.ts return: the one of the parsed answer, or the one of their catch
\* branch when fetch rejects
apiResultError(op, resp, error) == IF resp = "network" THEN FailedTo(op) ELSE error

\* variant of thrownMessage that always throws the fallback
thrownMessage_Fallback(op, error) == FailedTo(op)

\* the message of the error thrown: result.error || 'Failed to ...'
thrownMessage(op, error) == IF error = "" THEN FailedTo(op) ELSE error

\* what the caller of a mutation gets
CallResult(call) ==
  [op |-> call.op, list |-> call.list,
   id |-> IF call.op = "create" THEN call.entry.id ELSE call.id,
   result |-> CallOutcome(call.resp),
   error |-> IF call.resp = "ok" THEN ""
             ELSE thrownMessage(call.op, apiResultError(call.op, call.resp, call.error)),
   requests |-> call.requests]

AddEntryReturn(c) ==
  /\ calls[c].pc = "replied" /\ calls[c].op = "create"
  /\ LET l == calls[c].list IN
       /\ cache' = saveEntries(addEntryCache(loadEntries(l), calls[c].resp, calls[c].entry), l)
       /\ notified' = addEntryNotifies(l, calls[c].resp)
  /\ kept' = IF calls[c].resp = "ok"
             THEN kept \cup {[id |-> calls[c].entry.id, list |-> calls[c].list]}
             ELSE kept
  /\ calls' = [calls EXCEPT ![c] = IdleCall]
  /\ outcome' = CallResult(calls[c])
  /\ trigger' = "none" /\ pullOutcome' = NoPull
  /\ UNCHANGED <<authVars, pureVars, srvVars, listeners, callbacks, delivered, deleted, gistVars, mgrVars, pulled, modifiedAt, ops, db, nextId, clock, lastSyncTime, deviceId, syncs, fetches>>

UpdateEntryReturn(c) ==
  /\ calls[c].pc = "replied" /\ calls[c].op = "update"
  /\ LET l == calls[c].list IN
       /\ cache' = saveEntries(updateEntryCache(loadEntries(l), calls[c].id,
                                                calls[c].resp, calls[c].entry), l)
       /\ notified' = updateEntryNotifies(l, loadEntries(l), calls[c].id, calls[c].resp)
  /\ calls' = [calls EXCEPT ![c] = IdleCall]
  /\ outcome' = CallResult(calls[c])
  /\ trigger' = "none" /\ pullOutcome' = NoPull
  /\ UNCHANGED <<authVars, pureVars, srvVars, subVars, gistVars, mgrVars, pulled, modifiedAt, ops, db, nextId, clock, lastSyncTime, deviceId, syncs, fetches>>

DeleteEntryReturn(c) ==
  /\ calls[c].pc = "replied" /\ calls[c].op = "delete"
  /\ LET l == calls[c].list IN
       /\ cache' = saveEntries(deleteEntryCache(loadEntries(l), calls[c].id, calls[c].resp), l)
       /\ notified' = deleteEntryNotifies(l, calls[c].resp)
  /\ deleted' = IF calls[c].resp = "ok" THEN deleted \cup {calls[c].id} ELSE deleted
  /\ calls' = [calls EXCEPT ![c] = IdleCall]
  /\ outcome' = CallResult(calls[c])
  /\ trigger' = "none" /\ pullOutcome' = NoPull
  /\ UNCHANGED <<authVars, pureVars, srvVars, listeners, callbacks, delivered, kept, gistVars, mgrVars, pulled, modifiedAt, ops, db, nextId, clock, lastSyncTime, deviceId, syncs, fetches>>

\* ---- syncEntriesFromCloud
FetchCall(f, l) ==
  /\ ops < MaxOps
  /\ ops' = ops + 1
  /\ fetches[f].pc = "idle"
  /\ FirstFree(fetches, FetchIds, f)
  /\ fetches' = [fetches EXCEPT ![f] = [IdleFetch EXCEPT !.pc = "sent", !.list = l]]
  /\ notified' = {}
  /\ outcome' = NoOutcome
  /\ trigger' = "none" /\ pullOutcome' = NoPull
  /\ UNCHANGED <<authVars, pureVars, srvVars, subVars, gistVars, mgrVars, pulled, modifiedAt, db, nextId, clock, cache, lastSyncTime, deviceId, calls, syncs>>

\* GET /entries?list=
EntriesEndpoint(f) ==
  /\ fetches[f].pc = "sent"
  /\ fetches' = [fetches EXCEPT ![f].pc = "replied", ![f].resp = "ok",
                                ![f].entries = OrderByCreatedDesc(RowsOf(fetches[f].list))]
  /\ notified' = {}
  /\ outcome' = NoOutcome
  /\ trigger' = "none" /\ pullOutcome' = NoPull
  /\ UNCHANGED <<authVars, pureVars, srvVars, subVars, gistVars, mgrVars, pulled, modifiedAt, ops, db, nextId, clock, cache, lastSyncTime, deviceId, calls, syncs>>

\* status 500 with { error }, or fetch rejects and fetchEntries returns
\* { entries: [], error }
FetchError(f) ==
  /\ fetches[f].pc = "sent"
  /\ fetches' = [fetches EXCEPT ![f].pc = "replied", ![f].resp = "error", ![f].entries = <<>>]
  /\ notified' = {}
  /\ outcome' = NoOutcome
  /\ trigger' = "none" /\ pullOutcome' = NoPull
  /\ UNCHANGED <<authVars, pureVars, srvVars, subVars, gistVars, mgrVars, pulled, modifiedAt, ops, db, nextId, clock, cache, lastSyncTime, deviceId, calls, syncs>>

\* if (result.entries && !result.error) saveEntries(result.entries, listType)
syncEntriesFromCloudCache(entries, resp, fetched) ==
  IF resp = "ok" THEN fetched ELSE entries

SyncEntriesFromCloudReturn(f) ==
  /\ fetches[f].pc = "replied"
  /\ LET l == fetches[f].list IN
       cache' = saveEntries(syncEntriesFromCloudCache(loadEntries(l), fetches[f].resp,
                                                      fetches[f].entries), l)
  /\ fetches' = [fetches EXCEPT ![f] = IdleFetch]
  /\ notified' = {}
  /\ outcome' = NoOutcome
  /\ trigger' = "none" /\ pullOutcome' = NoPull
  /\ UNCHANGED <<authVars, pureVars, srvVars, subVars, gistVars, mgrVars, pulled, modifiedAt, ops, db, nextId, clock, lastSyncTime, deviceId, calls, syncs>>

\* ---- subscribeToEntries
\* no callback has been invoked by subscribeToEntries
NoDelivery == [callback |-> [id |-> 0, list |-> "none"], entries |-> <<>>]

SubInit ==
  /\ listeners = [l \in ListTypes |-> <<>>]
  /\ callbacks = {}
  /\ delivered = NoDelivery
  /\ kept = {}
  /\ deleted = {}

\* wrappedCallback: entries.sort((a, b) => b.createdAt - a.createdAt), the
\* newest first (identifiers are issued in creation order)
wrappedCallback(entries) == SortSeq(entries, LAMBDA a, b : a.id > b.id)

\* notifyListeners(listType): the callbacks it invokes
notifyListeners(l) == Range(listeners[l])

\* subscribeToEntries(l, callback): starts syncEntriesFromCloud(l), pushes
\* the wrapped callback and invokes it with loadEntries(l).  The wrapped
\* callback is a new function object at each call
Subscribe(f, l) ==
  /\ ops < MaxSubOps
  /\ ops' = ops + 1
  /\ fetches[f].pc = "idle"
  /\ FirstFree(fetches, FetchIds, f)
  /\ fetches' = [fetches EXCEPT ![f] = [IdleFetch EXCEPT !.pc = "sent", !.list = l]]
  /\ LET cb == [id |-> Cardinality(callbacks) + 1, list |-> l] IN
       /\ callbacks' = callbacks \cup {cb}
       /\ listeners' = [listeners EXCEPT ![l] = Append(@, cb)]
       /\ delivered' = [callback |-> cb, entries |-> wrappedCallback(loadEntries(l))]
  /\ notified' = {}
  /\ outcome' = NoOutcome
  /\ trigger' = "none" /\ pullOutcome' = NoPull
  /\ UNCHANGED <<authVars, pureVars, srvVars, gistVars, mgrVars, pulled, modifiedAt, db, nextId, clock, cache, lastSyncTime, deviceId, calls, syncs, kept, deleted>>

\* variant of Unsubscribe that empties the registry of the list
Unsubscribe_Clear(cb) ==
  /\ ops < MaxSubOps
  /\ ops' = ops + 1
  /\ cb \in callbacks
  /\ listeners' = [listeners EXCEPT ![cb.list] = <<>>]
  /\ notified' = {}
  /\ outcome' = NoOutcome
  /\ trigger' = "none" /\ pullOutcome' = NoPull
  /\ UNCHANGED <<authVars, pureVars, srvVars, gistVars, mgrVars, pulled, modifiedAt, db, nextId, clock, cache, lastSyncTime, deviceId, calls, syncs, fetches, callbacks, delivered, kept, deleted>>

\* the function subscribeToEntries returned for cb: the registry of cb's
\* list becomes its filter (c) => c !== cb
Unsubscribe(cb) ==
  /\ ops < MaxSubOps
  /\ ops' = ops + 1
  /\ cb \in callbacks
  /\ listeners' = [listeners EXCEPT ![cb.list] = SelectSeq(@, LAMBDA c : c # cb)]
  /\ notified' = {}
  /\ outcome' = NoOutcome
  /\ trigger' = "none" /\ pullOutcome' = NoPull
  /\ UNCHANGED <<authVars, pureVars, srvVars, gistVars, mgrVars, pulled, modifiedAt, db, nextId, clock, cache, lastSyncTime, deviceId, calls, syncs, fetches, callbacks, delivered, kept, deleted>>

\* ---- the subscription specification: components subscribe and
\* unsubscribe while entries are created and deleted
SubNext ==
  \/ \E f \in FetchIds, l \in ListTypes : Subscribe(f, l)
  \/ \E cb \in callbacks : Unsubscribe(cb)
  \/ \E c \in CallIds, l \in ListTypes : AddEntryCall(c, l, "Dune")
  \/ \E c \in CallIds : CreateEndpoint(c)
  \/ \E c \in CallIds : AddEntryReturn(c)
  \/ \E f \in FetchIds : EntriesEndpoint(f)
  \/ \E f \in FetchIds : FetchError(f)
  \/ \E f \in FetchIds : SyncEntriesFromCloudReturn(f)

\* ---- performSync / syncAll
\* performSync(listType): const since = getSyncState().lastSyncTime || ''
\* (the sync state is stored under one key, whatever the list)
performSyncSince(l) == lastSyncTime

\* getSyncState: the stored sync state, or, when none is stored, a new one
\* with the deviceId 'device-' + crypto.randomUUID(), which it stores
getSyncStateDevice == IF deviceId = NoDevice THEN "device-uuid" ELSE deviceId

\* the deviceId stored after a step: performSync reads the sync state when
\* the step starts a request of a pull
performSyncDevice(started) == IF started THEN getSyncStateDevice ELSE deviceId

\* one iteration of syncAll's loop up to the await of the request
StartPull(lts, cb) ==
  [IdleSync EXCEPT !.pc = "sent", !.list = Head(lts), !.todo = Tail(lts), !.onSync = cb,
                   !.since = performSyncSince(Head(lts))]

\* a call of syncAll(listTypes, onSync), the max-th at most
SyncAllBegin(s, lts, max) ==
  /\ ops < max
  /\ ops' = ops + 1
  /\ syncs[s].pc = "idle"
  /\ FirstFree(syncs, SyncIds, s)
  /\ syncs' = [syncs EXCEPT ![s] = StartPull(lts, Len(lts) = 1)]
  /\ deviceId' = performSyncDevice(TRUE)
  /\ notified' = {}
  /\ outcome' = NoOutcome
  /\ trigger' = "none" /\ pullOutcome' = NoPull
  /\ UNCHANGED <<authVars, pureVars, srvVars, subVars, gistVars, mgrVars, pulled, modifiedAt, db, nextId, clock, cache, lastSyncTime, calls, fetches>>

SyncAllStart(s, lts) == SyncAllBegin(s, lts, MaxOps)

\* GET /entries/sync?list=&since=
SyncEndpoint(s) ==
  /\ syncs[s].pc = "sent"
  /\ syncs' = [syncs EXCEPT ![s].pc = "replied", ![s].resp = "ok",
                            ![s].entries = SyncRows(syncs[s].list, syncs[s].since),
                            ![s].serverTime = clock,
                            ![s].isInitial = (syncs[s].since = 0)]
  /\ notified' = {}
  /\ outcome' = NoOutcome
  /\ trigger' = "none" /\ pullOutcome' = NoPull
  /\ UNCHANGED <<authVars, pureVars, srvVars, subVars, gistVars, mgrVars, pulled, modifiedAt, ops, db, nextId, clock, cache, lastSyncTime, deviceId, calls, fetches>>

\* a response that is not OK, or fetch rejects
SyncError(s) ==
  /\ syncs[s].pc = "sent"
  /\ syncs' = [syncs EXCEPT ![s].pc = "replied", ![s].resp = "error", ![s].entries = <<>>,
                            ![s].serverTime = 0, ![s].isInitial = FALSE]
  /\ notified' = {}
  /\ outcome' = NoOutcome
  /\ trigger' = "none" /\ pullOutcome' = NoPull
  /\ UNCHANGED <<authVars, pureVars, srvVars, subVars, gistVars, mgrVars, pulled, modifiedAt, ops, db, nextId, clock, cache, lastSyncTime, deviceId, calls, fetches>>

\* variant of updateSyncState that never moves lastSyncTime backwards
updateSyncState_Max(serverTime) ==
  IF serverTime > lastSyncTime THEN serverTime ELSE lastSyncTime

\* updateSyncState({ lastSyncTime: data.serverTime })
updateSyncState(serverTime) == serverTime

\* variant of updateSyncStateDevice that stores the updates alone
updateSyncStateDevice_Replace == NoDevice

\* the deviceId updateSyncState stores: { ...getSyncState(), ...updates },
\* and the updates of performSync name lastSyncTime only
updateSyncStateDevice == getSyncStateDevice

\* performSync after the await: throws on a response that is not OK,
\* otherwise stores the server time and returns the entries
PerformSyncReturn(s) ==
  /\ syncs[s].pc = "replied"
  /\ IF syncs[s].resp = "ok"
     THEN /\ lastSyncTime' = updateSyncState(syncs[s].serverTime)
          /\ deviceId' = updateSyncStateDevice
          /\ syncs' = [syncs EXCEPT ![s].pc = "returned"]
          /\ pulled' = pulled \cup {syncs[s].list}
     ELSE /\ lastSyncTime' = lastSyncTime
          /\ deviceId' = deviceId
          /\ syncs' = [syncs EXCEPT ![s].pc = "threw"]
          /\ pulled' = pulled
  /\ notified' = {}
  /\ outcome' = NoOutcome
  /\ trigger' = "none" /\ pullOutcome' = NoPull
  /\ UNCHANGED <<authVars, pureVars, srvVars, subVars, gistVars, mgrVars, modifiedAt, ops, db, nextId, clock, cache, calls, fetches>>

\* syncAll's merge: the cached entries keyed by id, overwritten by the
\* entries of the response, when the response has entries or is initial
syncAllMerge(existing, entries, isInitial) ==
  IF Len(entries) > 0 \/ isInitial
  THEN MapSetAll(MapSetAll(<<>>, existing), entries)
  ELSE existing

\* how one iteration of syncAll's loop ended: in the try block with
\* onSync?.(listType, result.isNewData), or in the catch block with
\* onSync?.(listType, false)
syncAllOutcome(l, cb, entries, done) ==
  [list |-> l, onSync |-> cb, result |-> IF done THEN "ok" ELSE "error",
   hasNewData |-> done /\ Len(entries) > 0]

\* syncAll after the await of performSync: merge (or the catch branch),
\* then the next list of the loop.  stored is FALSE when the merge has to
\* save and localStorage.setItem throws (the quota is exceeded): the catch
\* branch of the loop swallows the error.  The listeners of storage.ts are
\* not called: the loop only dispatches the event 'media-entries-synced'.
SyncAllContinue(s, stored) ==
  /\ syncs[s].pc \in {"returned", "threw"}
  /\ ~stored => (syncs[s].pc = "returned" /\ (Len(syncs[s].entries) > 0 \/ syncs[s].isInitial))
  /\ LET l == syncs[s].list IN
       /\ cache' = IF syncs[s].pc = "returned" /\ stored
                   THEN saveEntries(syncAllMerge(loadEntries(l), syncs[s].entries,
                                                 syncs[s].isInitial), l)
                   ELSE cache
       /\ pullOutcome' = syncAllOutcome(l, syncs[s].onSync, syncs[s].entries,
                                        syncs[s].pc = "returned" /\ stored)
  /\ syncs' = [syncs EXCEPT ![s] =
       IF syncs[s].todo = <<>> THEN IdleSync ELSE StartPull(syncs[s].todo, syncs[s].onSync)]
  /\ deviceId' = performSyncDevice(syncs[s].todo # <<>>)
  /\ notified' = {}
  /\ outcome' = NoOutcome
  /\ trigger' = "none"
  /\ UNCHANGED <<authVars, pureVars, srvVars, subVars, gistVars, mgrVars, pulled, modifiedAt, ops, db, nextId, clock, lastSyncTime, calls, fetches>>

\* ------------------------------------------------- the store specification
StoreNext ==
  \/ \E c \in CallIds, l \in ListTypes, t \in Titles : AddEntryCall(c, l, t)
  \/ \E c \in CallIds, l \in ListTypes, t \in Titles :
       \E id \in Ids(cache[l]) : UpdateEntryCall(c, l, id, t)
  \/ \E c \in CallIds, l \in ListTypes :
       \E id \in Ids(cache[l]) : DeleteEntryCall(c, l, id)
  \/ \E c \in CallIds : CreateEndpoint(c)
  \/ \E c \in CallIds : UpdateEndpoint(c)
  \/ \E c \in CallIds : DeleteEndpoint(c)
  \/ \E c \in CallIds : CallServerError(c)
  \/ \E c \in CallIds : CallTransportError(c)
  \/ \E c \in CallIds : AddEntryReturn(c)
  \/ \E c \in CallIds : UpdateEntryReturn(c)
  \/ \E c \in CallIds : DeleteEntryReturn(c)
  \/ \E f \in FetchIds, l \in ListTypes : FetchCall(f, l)
  \/ \E f \in FetchIds : EntriesEndpoint(f)
  \/ \E f \in FetchIds : FetchError(f)
  \/ \E f \in FetchIds : SyncEntriesFromCloudReturn(f)
  \/ \E s \in SyncIds, lts \in SyncListArgs : SyncAllStart(s, lts)
  \/ \E s \in SyncIds : SyncEndpoint(s)
  \/ \E s \in SyncIds : SyncError(s)
  \/ \E s \in SyncIds : PerformSyncReturn(s)
  \/ \E s \in SyncIds, stored \in BOOLEAN : SyncAllContinue(s, stored)

\* ------------------------------------------------------ the sync-manager
\* a syncAll run can be started
HasFreeSync == \E s \in SyncIds : syncs[s].pc = "idle"

\* syncAll(listTypes, onSync) up to the await of the first request
syncAll(lts, cb) ==
  LET s == CHOOSE s \in SyncIds : syncs[s].pc = "idle" /\ FirstFree(syncs, SyncIds, s)
  IN [syncs EXCEPT ![s] = StartPull(lts, cb)]

\* the lists the visibility and focus handlers pull
BothLists == <<"backlog", "futurelog">>

\* clearInterval(syncInterval) if (syncInterval): the interval with that
\* handle is cleared
clearInterval(handle, n) == IF handle THEN n - 1 ELSE n

\* document.addEventListener / removeEventListener with the one function
\* handleVisibilityChange: a listener that is registered is not registered
\* twice
addEventListener(n) == IF n = 0 THEN 1 ELSE n

removeEventListener(n) == IF n = 0 THEN 0 ELSE n - 1

\* what every step of the sync-manager leaves alone
MgrFrame ==
  /\ deviceId' = performSyncDevice(syncs' # syncs)
  /\ notified' = {}
  /\ outcome' = NoOutcome
  /\ pullOutcome' = NoPull
  /\ UNCHANGED <<authVars, pureVars, srvVars, subVars, gistVars, pulled, cache, lastSyncTime, calls, fetches>>

\* the hook's effect: startBackgroundSync([listType], onSync), which stops
\* a running timer, registers the visibility listener, pulls once and sets
\* the 60 s timer; the effect registers syncOnFocus alongside.
\* isPageVisible is not read from the document.
StartBackgroundSync_NoStop(l) ==
  /\ ops < MaxEvents
  /\ ops' = ops + 1
  /\ HasFreeSync
  /\ syncs' = syncAll(<<l>>, TRUE)
  /\ syncInterval' = TRUE
  /\ bgLists' = <<l>>
  /\ timers' = timers + 1
  /\ visListeners' = addEventListener(visListeners)
  /\ trigger' = "start"
  /\ MgrFrame
  /\ UNCHANGED <<isPageVisible, hidden, db, nextId, clock, modifiedAt>>

StartBackgroundSync(l) ==
  /\ ops < MaxEvents
  /\ ops' = ops + 1
  /\ HasFreeSync
  /\ syncs' = syncAll(<<l>>, TRUE)
  /\ syncInterval' = TRUE
  /\ bgLists' = <<l>>
  /\ timers' = clearInterval(syncInterval, timers) + 1
  /\ visListeners' = addEventListener(removeEventListener(visListeners))
  /\ trigger' = "start"
  /\ MgrFrame
  /\ UNCHANGED <<isPageVisible, hidden, db, nextId, clock, modifiedAt>>

\* the effect's cleanup: stopBackgroundSync clears the timer and removes
\* the visibility listener; the cleanup removes syncOnFocus alongside
StopBackgroundSync ==
  /\ ops < MaxEvents
  /\ ops' = ops + 1
  /\ syncInterval
  /\ syncInterval' = FALSE
  /\ bgLists' = <<>>
  /\ timers' = clearInterval(syncInterval, timers)
  /\ visListeners' = removeEventListener(visListeners)
  /\ trigger' = "stop"
  /\ UNCHANGED <<isPageVisible, hidden, syncs, db, nextId, clock, modifiedAt>>
  /\ MgrFrame

\* the timer's callback: if (isPageVisible) syncAll(listTypes, onSync)
TimerTick ==
  /\ ops < MaxEvents
  /\ ops' = ops + 1
  /\ timers > 0
  /\ IF isPageVisible
     THEN HasFreeSync /\ syncs' = syncAll(bgLists, TRUE)
     ELSE syncs' = syncs
  /\ trigger' = "timer"
  /\ MgrFrame
  /\ UNCHANGED <<mgrVars, db, nextId, clock, modifiedAt>>

\* the document changes visibility; handleVisibilityChange runs when the
\* listener is registered: it pulls both lists when isPageVisible goes from
\* false to true
VisibilityChange ==
  /\ ops < MaxEvents
  /\ ops' = ops + 1
  /\ hidden' = ~hidden
  /\ IF visListeners > 0
     THEN /\ isPageVisible' = ~hidden'
          /\ IF ~isPageVisible /\ isPageVisible'
             THEN HasFreeSync /\ syncs' = syncAll(BothLists, FALSE)
             ELSE syncs' = syncs
     ELSE UNCHANGED <<isPageVisible, syncs>>
  /\ trigger' = "visibility"
  /\ MgrFrame
  /\ UNCHANGED <<syncInterval, bgLists, timers, visListeners, db, nextId, clock, modifiedAt>>

\* the window of a visible document gets the focus: syncOnFocus pulls both
\* lists if (isPageVisible)
SyncOnFocus ==
  /\ ops < MaxEvents
  /\ ops' = ops + 1
  /\ syncInterval
  /\ ~hidden
  /\ IF isPageVisible
     THEN HasFreeSync /\ syncs' = syncAll(BothLists, FALSE)
     ELSE syncs' = syncs
  /\ trigger' = "focus"
  /\ MgrFrame
  /\ UNCHANGED <<mgrVars, db, nextId, clock, modifiedAt>>

\* ---- the endpoints called by another device
RemoteFrame ==
  /\ ops < MaxPullOps
  /\ ops' = ops + 1
  /\ notified' = {}
  /\ outcome' = NoOutcome
  /\ pullOutcome' = NoPull
  /\ trigger' = "none"
  /\ UNCHANGED <<authVars, pureVars, srvVars, subVars, gistVars, mgrVars, pulled, cache, lastSyncTime, deviceId, calls, syncs, fetches>>

\* POST /entries/create
RemoteCreate(l, t) ==
  /\ db' = db \cup {InsertedRow(l, t)}
  /\ nextId' = nextId + 1
  /\ clock' = clock + 1
  /\ modifiedAt' = Append(modifiedAt, clock + 1)
  /\ RemoteFrame

\* POST /entries/update of an existing row
RemoteUpdate(id, t) ==
  /\ \E r \in db :
       /\ r.id = id /\ r.title # t
       /\ db' = (db \ {r}) \cup {UpdatedRow(r, t)}
  /\ clock' = clock + 1
  /\ modifiedAt' = [modifiedAt EXCEPT ![id] = clock + 1]
  /\ nextId' = nextId
  /\ RemoteFrame

\* POST /entries/delete of an existing row
RemoteDelete(id) ==
  /\ \E r \in db : r.id = id
  /\ db' = {r \in db : r.id # id}
  /\ clock' = clock + 1
  /\ UNCHANGED <<nextId, modifiedAt>>
  /\ RemoteFrame

\* ------ the pull specification with creates, moves and deletes made on
\* this device
MixNext ==
  \/ \E s \in SyncIds, lts \in SyncListArgs : SyncAllBegin(s, lts, MaxMixOps)
  \/ \E c \in CallIds, l \in ListTypes : AddEntryCall(c, l, "Dune")
  \/ \E c \in CallIds : CreateEndpoint(c)
  \/ \E c \in CallIds : AddEntryReturn(c)
  \/ \E c \in CallIds, l \in ListTypes, to \in ListTypes :
       \E id \in Ids(cache[l]) : MoveEntryCall(c, l, id, to)
  \/ \E c \in CallIds : UpdateEndpoint(c)
  \/ \E c \in CallIds : UpdateEntryReturn(c)
  \/ \E c \in CallIds, l \in ListTypes :
       \E id \in Ids(cache[l]) : DeleteEntryBegin(c, l, id, MaxMixOps)
  \/ \E c \in CallIds : DeleteEndpoint(c)
  \/ \E c \in CallIds : DeleteEntryReturn(c)
  \/ \E id \in 1..(nextId - 1), t \in Titles : RemoteUpdate(id, t)
  \/ \E s \in SyncIds : SyncEndpoint(s)
  \/ \E s \in SyncIds : PerformSyncReturn(s)
  \/ \E s \in SyncIds : SyncAllContinue(s, TRUE)

\* ----------------------------------------- the sync-manager specification
MgrNext ==
  \/ \E l \in ListTypes : StartBackgroundSync(l)
  \/ StopBackgroundSync
  \/ TimerTick
  \/ VisibilityChange
  \/ SyncOnFocus
  \/ \E s \in SyncIds : SyncEndpoint(s)
  \/ \E s \in SyncIds : SyncError(s)
  \/ \E s \in SyncIds : PerformSyncReturn(s)
  \/ \E s \in SyncIds, stored \in BOOLEAN : SyncAllContinue(s, stored)

\* ------------------------------- the pull specification: syncAll runs of
\* this device, every request of which is answered and every save of which
\* succeeds, against a table other devices write
SyncNext ==
  \/ \E s \in SyncIds, lts \in SyncListArgs : SyncAllBegin(s, lts, MaxPullOps)
  \/ \E l \in ListTypes : RemoteCreate(l, "Dune")
  \/ \E id \in 1..(nextId - 1), t \in Titles : RemoteUpdate(id, t)
  \/ \E id \in 1..(nextId - 1) : RemoteDelete(id)
  \/ \E s \in SyncIds : SyncEndpoint(s)
  \/ \E s \in SyncIds : PerformSyncReturn(s)
  \/ \E s \in SyncIds : SyncAllContinue(s, TRUE)

\* ---- the pull specification in which pulls never stop: the window gets
\* the focus again and again, each time after the pull before has ended
\* (syncOnFocus pulls both lists), every request is answered and every
\* save succeeds, while other devices write the table a bounded number of
\* times
PullAgain(lts) ==
  /\ \A s \in SyncIds : syncs[s].pc = "idle"
  /\ syncs' = syncAll(lts, FALSE)
  /\ deviceId' = performSyncDevice(TRUE)
  /\ notified' = {}
  /\ outcome' = NoOutcome
  /\ trigger' = "focus" /\ pullOutcome' = NoPull
  /\ UNCHANGED <<authVars, pureVars, srvVars, subVars, gistVars, mgrVars, pulled, modifiedAt, ops, db, nextId, clock, cache, lastSyncTime, calls, fetches>>

LiveNext ==
  \/ PullAgain(BothLists)
  \/ \E l \in ListTypes : RemoteCreate(l, "Dune")
  \/ \E id \in 1..(nextId - 1), t \in Titles : RemoteUpdate(id, t)
  \/ \E id \in 1..(nextId - 1) : RemoteDelete(id)
  \/ \E s \in SyncIds : SyncEndpoint(s)
  \/ \E s \in SyncIds : PerformSyncReturn(s)
  \/ \E s \in SyncIds : SyncAllContinue(s, TRUE)

\* pulls keep being started, and every started pull is answered, returns
\* and is merged
LiveFairness ==
  /\ WF_vars(PullAgain(BothLists))
  /\ \A s \in SyncIds :
       /\ WF_vars(SyncEndpoint(s))
       /\ WF_vars(PerformSyncReturn(s))
       /\ WF_vars(SyncAllContinue(s, TRUE))

\* ---------------------------------------------------- authenticatedFetch
\* a token is a positive number; 0 is an absent localStorage item
NoToken == 0

IdleAf ==
  [pc |-> "idle", hdr0 |-> NoToken, hdr |-> NoToken, status0 |-> "none",
   status |-> "none", sawRefresh |-> FALSE, refreshResp |-> "none", newTok |-> NoToken,
   nRefresh |-> 0, nRetry |-> 0, result |-> "none"]

\* the statuses a request to the API can be answered with
Statuses == {"200", "401", "500"}

\* the answers of POST /auth/refresh: OK with an access_token, OK without
\* one, a status that is not OK, or fetch rejects
RefreshAnswers == {"token", "notoken", "rejected", "network"}

AuthInit ==
  /\ accessToken = NoToken
  /\ refreshToken = NoToken
  /\ nextTok = 1
  /\ af = [a \in AfIds |-> IdleAf]
  /\ signingOut = FALSE

\* authLogin / authSignup with a response that carries both tokens: setTokens
AuthLogin ==
  /\ nextTok + 1 <= MaxTokens
  /\ accessToken' = nextTok
  /\ refreshToken' = nextTok + 1
  /\ nextTok' = nextTok + 2
  /\ UNCHANGED af
  /\ UNCHANGED <<storeVars, pureVars, srvVars, subVars, gistVars, signingOut>>

\* authenticatedFetch up to the await of the request: throws when no access
\* token is stored, otherwise sends the request with the token
AfCall(a) ==
  /\ af[a].pc \in {"idle", "done"}
  /\ af' = [af EXCEPT ![a] =
       IF accessToken = NoToken
       THEN [IdleAf EXCEPT !.pc = "done", !.result = "thrown"]
       ELSE [IdleAf EXCEPT !.pc = "sent", !.hdr0 = accessToken, !.hdr = accessToken]]
  /\ UNCHANGED <<accessToken, refreshToken, nextTok>>
  /\ UNCHANGED <<storeVars, pureVars, srvVars, subVars, gistVars, signingOut>>

\* the endpoint answers the original request

AfResponse(a, st) ==
  /\ af[a].pc = "sent"
  /\ af' = [af EXCEPT ![a].pc = "replied", ![a].status0 = st, ![a].status = st]
  /\ UNCHANGED <<accessToken, refreshToken, nextTok>>
  /\ UNCHANGED <<storeVars, pureVars, srvVars, subVars, gistVars, signingOut>>

\* fetch of the original request rejects: outside the try, the error goes
\* to the caller

AfNetworkError(a) ==
  /\ af[a].pc = "sent"
  /\ af' = [af EXCEPT ![a].pc = "done", ![a].status0 = "network", ![a].status = "network",
                      ![a].result = "thrown"]
  /\ UNCHANGED <<accessToken, refreshToken, nextTok>>
  /\ UNCHANGED <<storeVars, pureVars, srvVars, subVars, gistVars, signingOut>>

\* after the await of the original request: return the response unless it
\* is a 401; on 401 call the refresh endpoint when a refresh token is
\* stored, otherwise clearTokens and throw 'Session expired'

AfHandle(a) ==
  /\ af[a].pc = "replied"
  /\ IF af[a].status # "401"
     THEN /\ af' = [af EXCEPT ![a].pc = "done", ![a].result = "response"]
          /\ UNCHANGED <<accessToken, refreshToken>>
     ELSE IF refreshToken # NoToken
     THEN /\ af' = [af EXCEPT ![a].pc = "refreshing", ![a].sawRefresh = TRUE,
                               ![a].nRefresh = af[a].nRefresh + 1]
          /\ UNCHANGED <<accessToken, refreshToken>>
     ELSE /\ af' = [af EXCEPT ![a].pc = "done", ![a].result = "thrown"]
          /\ accessToken' = NoToken
          /\ refreshToken' = NoToken
  /\ UNCHANGED nextTok
  /\ UNCHANGED <<storeVars, pureVars, srvVars, subVars, gistVars, signingOut>>

\* POST /auth/refresh answers (or the fetch rejects)

RefreshResponse(a, ans) ==
  /\ af[a].pc = "refreshing"
  /\ ans = "token" => nextTok <= MaxTokens
  /\ af' = [af EXCEPT ![a].pc = "refreshed", ![a].refreshResp = ans,
                      ![a].newTok = IF ans = "token" THEN nextTok ELSE NoToken]
  /\ nextTok' = IF ans = "token" THEN nextTok + 1 ELSE nextTok
  /\ UNCHANGED <<accessToken, refreshToken>>
  /\ UNCHANGED <<storeVars, pureVars, srvVars, subVars, gistVars, signingOut>>

\* variant of AfRefreshReturn that keeps the tokens when the refresh is
\* rejected

AfRefreshReturn_KeepTokens(a) ==
  /\ af[a].pc = "refreshed"
  /\ CASE af[a].refreshResp = "token" ->
            /\ accessToken' = af[a].newTok
            /\ refreshToken' = refreshToken
            /\ af' = [af EXCEPT ![a].pc = "retrying", ![a].hdr = af[a].newTok,
                                ![a].nRetry = af[a].nRetry + 1]
       [] af[a].refreshResp = "notoken" ->
            /\ UNCHANGED <<accessToken, refreshToken>>
            /\ af' = [af EXCEPT ![a].pc = "done", ![a].result = "response"]
       [] OTHER ->
            /\ UNCHANGED <<accessToken, refreshToken>>
            /\ af' = [af EXCEPT ![a].pc = "done", ![a].result = "thrown"]
  /\ UNCHANGED nextTok
  /\ UNCHANGED <<storeVars, pureVars, srvVars, subVars, gistVars, signingOut>>

\* variant of AfRefreshReturn that retries with the headers of the
\* original request

AfRefreshReturn_OldHeader(a) ==
  /\ af[a].pc = "refreshed"
  /\ CASE af[a].refreshResp = "token" ->
            /\ accessToken' = af[a].newTok
            /\ refreshToken' = refreshToken
            /\ af' = [af EXCEPT ![a].pc = "retrying", ![a].nRetry = af[a].nRetry + 1]
       [] af[a].refreshResp = "notoken" ->
            /\ UNCHANGED <<accessToken, refreshToken>>
            /\ af' = [af EXCEPT ![a].pc = "done", ![a].result = "response"]
       [] OTHER ->
            /\ accessToken' = NoToken
            /\ refreshToken' = NoToken
            /\ af' = [af EXCEPT ![a].pc = "done", ![a].result = "thrown"]
  /\ UNCHANGED nextTok
  /\ UNCHANGED <<storeVars, pureVars, srvVars, subVars, gistVars, signingOut>>

\* after the await of the refresh call

AfRefreshReturn(a) ==
  /\ af[a].pc = "refreshed"
  /\ CASE af[a].refreshResp = "token" ->
            \* store the access token, retry the request with it
            /\ accessToken' = af[a].newTok
            /\ refreshToken' = refreshToken
            /\ af' = [af EXCEPT ![a].pc = "retrying", ![a].hdr = af[a].newTok,
                                ![a].nRetry = af[a].nRetry + 1]
       [] af[a].refreshResp = "notoken" ->
            \* OK without access_token: falls through to return response
            /\ UNCHANGED <<accessToken, refreshToken>>
            /\ af' = [af EXCEPT ![a].pc = "done", ![a].result = "response"]
       [] OTHER ->
            \* not OK, or the fetch rejected: clearTokens and throw
            /\ accessToken' = NoToken
            /\ refreshToken' = NoToken
            /\ af' = [af EXCEPT ![a].pc = "done", ![a].result = "thrown"]
  /\ UNCHANGED nextTok
  /\ UNCHANGED <<storeVars, pureVars, srvVars, subVars, gistVars, signingOut>>

\* the endpoint answers the retried request, or the fetch rejects

RetryResponse(a, st) ==
  /\ af[a].pc = "retrying"
  /\ af' = [af EXCEPT ![a].pc = "retried", ![a].status = st]
  /\ UNCHANGED <<accessToken, refreshToken, nextTok>>
  /\ UNCHANGED <<storeVars, pureVars, srvVars, subVars, gistVars, signingOut>>

\* variant of AfRetryReturn that handles a 401 of the retried request like
\* a 401 of the original one

AfRetryReturn_Loop(a) ==
  /\ af[a].pc = "retried"
  /\ IF af[a].status = "network"
     THEN /\ accessToken' = NoToken
          /\ refreshToken' = NoToken
          /\ af' = [af EXCEPT ![a].pc = "done", ![a].result = "thrown"]
     ELSE /\ UNCHANGED <<accessToken, refreshToken>>
          /\ af' = IF af[a].status = "401"
                   THEN [af EXCEPT ![a].pc = "replied"]
                   ELSE [af EXCEPT ![a].pc = "done", ![a].result = "response"]
  /\ UNCHANGED nextTok
  /\ UNCHANGED <<storeVars, pureVars, srvVars, subVars, gistVars, signingOut>>

\* after the await of the retried request: the response is returned
\* whatever its status; a rejected fetch is caught by the catch around
\* the refresh, which clears the tokens and rethrows

AfRetryReturn(a) ==
  /\ af[a].pc = "retried"
  /\ IF af[a].status = "network"
     THEN /\ accessToken' = NoToken
          /\ refreshToken' = NoToken
          /\ af' = [af EXCEPT ![a].pc = "done", ![a].result = "thrown"]
     ELSE /\ UNCHANGED <<accessToken, refreshToken>>
          /\ af' = [af EXCEPT ![a].pc = "done", ![a].result = "response"]
  /\ UNCHANGED nextTok
  /\ UNCHANGED <<storeVars, pureVars, srvVars, subVars, gistVars, signingOut>>

AuthNext ==
  \/ AuthLogin
  \/ \E a \in AfIds : AfCall(a)
  \/ \E a \in AfIds, st \in Statuses : AfResponse(a, st)
  \/ \E a \in AfIds : AfNetworkError(a)
  \/ \E a \in AfIds : AfHandle(a)
  \/ \E a \in AfIds, ans \in RefreshAnswers : RefreshResponse(a, ans)
  \/ \E a \in AfIds : AfRefreshReturn(a)
  \/ \E a \in AfIds, st \in Statuses \cup {"network"} : RetryResponse(a, st)
  \/ \E a \in AfIds : AfRetryReturn(a)

\* clearTokens: both items are removed from localStorage
clearTokens ==
  /\ accessToken' = NoToken
  /\ refreshToken' = NoToken

\* authSignout up to the await of POST /auth/signout; without a stored
\* refresh token nothing is sent and clearTokens runs at once
AuthSignoutCall ==
  /\ ~signingOut
  /\ IF refreshToken # NoToken
     THEN /\ signingOut' = TRUE
          /\ UNCHANGED <<accessToken, refreshToken>>
     ELSE /\ signingOut' = FALSE
          /\ clearTokens
  /\ UNCHANGED <<nextTok, af>>
  /\ UNCHANGED <<storeVars, pureVars, srvVars, subVars, gistVars>>

\* after the await of POST /auth/signout: clearTokens whatever the status
\* of the answer; when fetch rejects, the catch block returns the error
\* and the tokens stay
AuthSignoutReturn(answered) ==
  /\ signingOut
  /\ signingOut' = FALSE
  /\ IF answered
     THEN clearTokens
     ELSE UNCHANGED <<accessToken, refreshToken>>
  /\ UNCHANGED <<nextTok, af>>
  /\ UNCHANGED <<storeVars, pureVars, srvVars, subVars, gistVars>>

\* ---- the session specification: requests, refreshes and sign-outs
SessionNext ==
  \/ AuthNext
  \/ AuthSignoutCall
  \/ \E answered \in BOOLEAN : AuthSignoutReturn(answered)

\* ------------------------------------------------- mergeEntries (gist.ts)
\* a record of a backup snapshot: its id and createdAt (the only fields
\* mergeEntries reads); modifiedAt is when this version of the record was
\* written, which is not a field of the record
GistIds == {1, 2, 3}
GistTimes == {1, 2}
GistEntries ==
  {e \in [id : GistIds, createdAt : GistTimes, modifiedAt : GistTimes] :
     e.createdAt <= e.modifiedAt}

\* the arrays of at most MaxMergeLen records with different ids
GistArrays ==
  UNION {{a \in [1..n -> GistEntries] : \A i, j \in 1..n : i # j => a[i].id # a[j].id} :
           n \in 0..MaxMergeLen}

\* Map.prototype.set that puts a new key in front
MapSetFront(m, e) ==
  IF FindIndex(m, e.id) # 0 THEN [m EXCEPT ![FindIndex(m, e.id)] = e]
  ELSE <<e>> \o m

\* variant of mergeRemote that puts the records only the remote has in front
RECURSIVE mergeRemote_Unshift(_, _)
mergeRemote_Unshift(m, es) ==
  IF es = <<>> THEN m
  ELSE LET e == Head(es)
           i == FindIndex(m, e.id)
       IN mergeRemote_Unshift(
            IF i = 0 \/ e.createdAt > m[i].createdAt THEN MapSetFront(m, e) ELSE m,
            Tail(es))

\* the second loop of mergeEntries: a remote record is set in the Map when
\* the Map has no record with its id, or when its createdAt is later than
\* the createdAt of the record the Map has (new Date(..).getTime() of a
\* valid date is its time)
RECURSIVE mergeRemote(_, _)
mergeRemote(m, es) ==
  IF es = <<>> THEN m
  ELSE LET e == Head(es)
           i == FindIndex(m, e.id)
       IN mergeRemote(
            IF i = 0 \/ e.createdAt > m[i].createdAt THEN MapSet(m, e) ELSE m,
            Tail(es))

\* variant of mergeEntries that lists the records only the remote has first
mergeEntries_Unshift(loc, rem) == mergeRemote_Unshift(MapSetAll(<<>>, loc), rem)

\* mergeEntries(local, remote): the local records keyed by id, merged with
\* the remote ones; Array.from(entryMap.values())
mergeEntries(loc, rem) == mergeRemote(MapSetAll(<<>>, loc), rem)

\* ------------------------------------------------ loadEntries (storage.ts)
\* a localStorage item: absent (getItem returns null), the empty string, a
\* string JSON.parse rejects, the JSON null, a JSON value that has no map
\* method (a number, a string, a boolean, an object), or an array.  An
\* element of an array is a record, null, or another value that is no record
ItemElems ==
  {[kind |-> "entry", entry |-> [id |-> i, list |-> l, title |-> t, updatedAt |-> 1]] :
     i \in {1, 2}, l \in ListTypes, t \in Titles}
  \cup {[kind |-> k, entry |-> NoEntry] : k \in {"null", "junk"}}

Items ==
  {[kind |-> k, elems |-> <<>>] : k \in {"absent", "empty", "unparseable", "null", "junk"}}
  \cup {[kind |-> "array", elems |-> a] : a \in UNION {[1..n -> ItemElems] : n \in 0..MaxItemLen}}

AbsentItem == [kind |-> "absent", elems |-> <<>>]

\* parsed.map(e => ({ ...e, createdAt: new Date(e.createdAt) })): reading
\* createdAt of null throws; any other value that is no record gives an
\* object with nothing but an invalid createdAt
MapCreatedAt(elems) ==
  [i \in 1..Len(elems) |-> IF elems[i].kind = "entry" THEN elems[i].entry ELSE NoEntry]

\* the body of loadEntries on the item stored under the list's key:
\* if (!data) return []; try { JSON.parse(data).map(..) } catch { return [] }
loadEntriesFrom(data) ==
  IF data.kind \in {"absent", "empty"} THEN [threw |-> FALSE, entries |-> <<>>]
  ELSE IF data.kind # "array" \/ \E i \in 1..Len(data.elems) : data.elems[i].kind = "null"
  THEN [threw |-> FALSE, entries |-> <<>>]
  ELSE [threw |-> FALSE, entries |-> MapCreatedAt(data.elems)]

\* nothing is merged and nothing is loaded
PureInit ==
  /\ localBacklog = <<>>
  /\ remoteBacklog = <<>>
  /\ mergedBacklog = <<>>
  /\ mergePc = "none"
  /\ storedItem = AbsentItem
  /\ loaded = <<>>
  /\ loadPc = "none"

\* mergeGistData: mergeEntries(localBacklog, remoteBacklog)
MergeGistData ==
  /\ mergePc = "none"
  /\ mergedBacklog' = mergeEntries(localBacklog, remoteBacklog)
  /\ mergePc' = "merged"
  /\ UNCHANGED <<storeVars, authVars, srvVars, gistVars, subVars, localBacklog, remoteBacklog, storedItem, loaded, loadPc>>

\* mergeGistData of the same snapshot into the same local records once
\* more, the result of the first merge being the remote side
MergeGistDataAgain ==
  /\ mergePc = "merged"
  /\ mergedBacklog' = mergeEntries(localBacklog, mergedBacklog)
  /\ mergePc' = "again"
  /\ UNCHANGED <<storeVars, authVars, srvVars, gistVars, subVars, localBacklog, remoteBacklog, storedItem, loaded, loadPc>>

\* mergeGistData on the device that has the two sides the other way round
MergeGistDataSwapped ==
  /\ mergePc = "none"
  /\ mergedBacklog' = mergeEntries(remoteBacklog, localBacklog)
  /\ mergePc' = "swapped"
  /\ UNCHANGED <<storeVars, authVars, srvVars, gistVars, subVars, localBacklog, remoteBacklog, storedItem, loaded, loadPc>>

MergeNext ==
  \/ MergeGistData
  \/ MergeGistDataAgain
  \/ MergeGistDataSwapped

\* loadEntries(listType) on the stored item
LoadEntries ==
  /\ loadPc = "none"
  /\ LET res == loadEntriesFrom(storedItem) IN
       /\ loaded' = res.entries
       /\ loadPc' = IF res.threw THEN "threw" ELSE "returned"
  /\ UNCHANGED <<storeVars, authVars, srvVars, gistVars, subVars, localBacklog, remoteBacklog, mergedBacklog, mergePc, storedItem>>

LoadNext == LoadEntries

\* ---------------------------------------- the backup to a gist (gist.ts)
IdlePush == [pc |-> "idle", op |-> "none", target |-> 0, resp |-> "none", id |-> 0]

\* an absent sessionStorage item
NoExpiry == 0

\* the lifetimes of a token, in ticks of the clock (expires_in, or the
\* default of 8 hours)
ExpiresIn == {1, 2}

GistInit ==
  /\ githubToken = "none"
  /\ tokenExpiry = NoExpiry
  /\ now = 0
  /\ gistId = 0
  /\ syncPending = FALSE
  /\ gists = 0
  /\ pushes = [p \in PushIds |-> IdlePush]
  /\ lastPush = "none"

\* what every step of the backup leaves alone
GistFrame ==
  /\ ops < MaxPushOps
  /\ ops' = ops + 1
  /\ notified' = {}
  /\ outcome' = NoOutcome
  /\ pullOutcome' = NoPull
  /\ UNCHANGED <<authVars, pureVars, srvVars, subVars, mgrVars, pulled, modifiedAt, db, nextId, clock, cache,
                 lastSyncTime, deviceId, calls, syncs, fetches>>

\* exchangeCodeForToken with an OK answer: the token and its expiry are
\* stored in sessionStorage
ExchangeCodeForToken(expiresIn) ==
  /\ githubToken' = "stored"
  /\ tokenExpiry' = now + expiresIn
  /\ trigger' = "none"
  /\ GistFrame
  /\ UNCHANGED <<now, gistId, syncPending, gists, pushes, lastPush>>

\* time passes
TimePasses ==
  /\ now' = now + 1
  /\ trigger' = "none"
  /\ GistFrame
  /\ UNCHANGED <<githubToken, tokenExpiry, gistId, syncPending, gists, pushes, lastPush>>

\* clearGitHubToken (handleSignOut): both items are removed, the gist id
\* is kept
clearGitHubToken ==
  /\ githubToken # "none"
  /\ githubToken' = "none"
  /\ tokenExpiry' = NoExpiry
  /\ trigger' = "none"
  /\ GistFrame
  /\ UNCHANGED <<now, gistId, syncPending, gists, pushes, lastPush>>

\* variant of getGitHubToken that still returns the token at the instant
\* of its expiry
getGitHubToken_Late ==
  githubToken # "none" /\ ~(tokenExpiry # NoExpiry /\ now > tokenExpiry)

\* getGitHubToken returns the token unless none is stored or the stored one
\* has expired: if (expiry) { if (Date.now() >= expiresAt) ... return null }
getGitHubToken ==
  githubToken # "none" /\ ~(tokenExpiry # NoExpiry /\ now >= tokenExpiry)

\* the two items after getGitHubToken: an expired token is removed with
\* its expiry by clearGitHubToken
afterGetGitHubToken ==
  IF githubToken # "none" /\ tokenExpiry # NoExpiry /\ now >= tokenExpiry
  THEN "none" ELSE githubToken

afterGetTokenExpiry ==
  IF githubToken # "none" /\ tokenExpiry # NoExpiry /\ now >= tokenExpiry
  THEN NoExpiry ELSE tokenExpiry

\* getGistId / setGistId / setSyncPending / isSyncPending
getGistId == gistId

setGistId(id) == id

setSyncPending(pending) == pending

isSyncPending == syncPending

\* a push up to the await of its request: createGist when no gist id is
\* stored, updateGist of the stored id otherwise.  Both return
\* { success: false } without a request when getGitHubToken returns null
SyncToGistCall(p) ==
  /\ pushes[p].pc = "idle"
  /\ FirstFree(pushes, PushIds, p)
  /\ githubToken' = afterGetGitHubToken
  /\ tokenExpiry' = afterGetTokenExpiry
  /\ IF getGitHubToken
     THEN /\ pushes' = [pushes EXCEPT ![p] =
               IF getGistId = 0 THEN [IdlePush EXCEPT !.pc = "sent", !.op = "create"]
               ELSE [IdlePush EXCEPT !.pc = "sent", !.op = "update", !.target = getGistId]]
          /\ UNCHANGED <<syncPending, lastPush>>
     ELSE /\ pushes' = pushes
          /\ syncPending' = setSyncPending(FALSE)
          /\ lastPush' = "unauthenticated"
  /\ trigger' = IF githubToken # "none" /\ ~getGitHubToken THEN "pushExpired" ELSE "push"
  /\ GistFrame
  /\ UNCHANGED <<now, gistId, gists>>

\* what the steps of a request in flight leave alone
GistStepFrame ==
  /\ trigger' = "none"
  /\ notified' = {}
  /\ outcome' = NoOutcome
  /\ pullOutcome' = NoPull
  /\ UNCHANGED <<authVars, pureVars, srvVars, subVars, mgrVars, pulled, modifiedAt, ops, db, nextId, clock, cache,
                 lastSyncTime, deviceId, calls, syncs, fetches, githubToken, tokenExpiry, now>>

\* POST https://api.github.com/gists creates a gist and answers with its id
CreateGistEndpoint(p) ==
  /\ pushes[p].pc = "sent" /\ pushes[p].op = "create"
  /\ gists' = gists + 1
  /\ pushes' = [pushes EXCEPT ![p].pc = "replied", ![p].resp = "ok", ![p].id = gists + 1]
  /\ GistStepFrame
  /\ UNCHANGED <<gistId, syncPending, lastPush>>

\* PATCH https://api.github.com/gists/{id} replaces the file of the gist
UpdateGistEndpoint(p) ==
  /\ pushes[p].pc = "sent" /\ pushes[p].op = "update"
  /\ pushes' = [pushes EXCEPT ![p].pc = "replied",
                              ![p].resp = IF pushes[p].target <= gists THEN "ok" ELSE "rejected"]
  /\ GistStepFrame
  /\ UNCHANGED <<gistId, syncPending, gists, lastPush>>

\* an answer that is not OK (401, 403, 422, a rate limit): nothing is written
GistRejected(p) ==
  /\ pushes[p].pc = "sent"
  /\ pushes' = [pushes EXCEPT ![p].pc = "replied", ![p].resp = "rejected"]
  /\ GistStepFrame
  /\ UNCHANGED <<gistId, syncPending, gists, lastPush>>

\* fetch rejects: the request or its answer is lost; the catch of
\* createGist / updateGist returns { success: false, error: 'Network error' }
GistTransportError(p) ==
  /\ pushes[p].pc \in {"sent", "replied"}
  /\ pushes[p].resp # "network"
  /\ pushes' = [pushes EXCEPT ![p].pc = "replied", ![p].resp = "network", ![p].id = 0]
  /\ GistStepFrame
  /\ UNCHANGED <<gistId, syncPending, gists, lastPush>>

\* createGist returns { success: true, gistId: gist.id } on an OK answer
createGistResult(resp, id) == IF resp = "ok" THEN id ELSE 0

\* a push after the await: the id of a created gist is stored; the pending
\* flag is set when the push failed for want of a connection and cleared
\* otherwise; the result is returned, nothing is thrown
SyncToGistReturn(p) ==
  /\ pushes[p].pc = "replied"
  /\ gistId' = IF pushes[p].op = "create" /\ createGistResult(pushes[p].resp, pushes[p].id) # 0
               THEN setGistId(createGistResult(pushes[p].resp, pushes[p].id))
               ELSE gistId
  /\ syncPending' = setSyncPending(pushes[p].resp = "network")
  /\ lastPush' = pushes[p].resp
  /\ pushes' = [pushes EXCEPT ![p] = IdlePush]
  /\ GistStepFrame
  /\ UNCHANGED gists

\* initializeGistSync, called by the hook when the application starts:
\* "No gist sync in single-user mode"
initializeGistSync ==
  /\ trigger' = "gistinit"
  /\ GistFrame
  /\ UNCHANGED gistVars

GistNext ==
  \/ \E expiresIn \in ExpiresIn : ExchangeCodeForToken(expiresIn)
  \/ TimePasses
  \/ clearGitHubToken
  \/ \E p \in PushIds : SyncToGistCall(p)
  \/ \E p \in PushIds : CreateGistEndpoint(p)
  \/ \E p \in PushIds : UpdateGistEndpoint(p)
  \/ \E p \in PushIds : GistRejected(p)
  \/ \E p \in PushIds : GistTransportError(p)
  \/ \E p \in PushIds : SyncToGistReturn(p)
  \/ initializeGistSync

\* ------------------------------------------- the server's refresh tokens
\* the refresh tokens a client can present
RTokens == {"rt1", "rt2"}

\* JWT_REFRESH_EXPIRES_IN: the lifetime written into the token ('7d' unless
\* the environment says otherwise)
JwtLifes == {DbLife, DbLife + 2}

NotIssued == [issued |-> FALSE, exp |-> 0, row |-> FALSE, expires_at |-> 0, revoked |-> FALSE]

NoRefreshCall == [pc |-> "idle", token |-> "rt1", found |-> FALSE, revoked |-> FALSE,
                  expires_at |-> 0, dead |-> FALSE]

NoResponse == [endpoint |-> "none", token |-> "rt1", status |-> 0, access |-> FALSE, dead |-> FALSE,
               threw |-> FALSE]

SrvInit ==
  /\ refresh_tokens = [t \in RTokens |-> NotIssued]
  /\ srvNow = 0
  /\ refreshCall = NoRefreshCall
  /\ response = NoResponse

\* what every step of the server's token table leaves alone
SrvFrame ==
  /\ ops < MaxSrvOps
  /\ ops' = ops + 1
  /\ UNCHANGED <<authVars, pureVars, subVars, gistVars, mgrVars, pulled, modifiedAt, db, nextId, clock,
                 cache, lastSyncTime, deviceId, calls, syncs, fetches, notified, outcome, trigger,
                 pullOutcome>>

\* the server's clock moves on
SrvTimePasses ==
  /\ srvNow' = srvNow + 1
  /\ UNCHANGED <<refresh_tokens, refreshCall, response>>
  /\ SrvFrame

\* login (and signup) with valid credentials: a refresh token is signed and
\* its row is inserted with expires_at seven days ahead
LoginPOST(t, life) ==
  /\ ~refresh_tokens[t].issued
  /\ refresh_tokens' = [refresh_tokens EXCEPT ![t] =
       [issued |-> TRUE, exp |-> srvNow + life, row |-> TRUE,
        expires_at |-> srvNow + DbLife, revoked |-> FALSE]]
  /\ response' = [NoResponse EXCEPT !.endpoint = "login", !.status = 200, !.access = TRUE]
  /\ UNCHANGED <<srvNow, refreshCall>>
  /\ SrvFrame

\* the signout endpoint: UPDATE refresh_tokens SET revoked_at = NOW() WHERE
\* token = refresh_token, answered 200; 500 when the statement throws
SignoutPOST(t, dbOk) ==
  /\ refresh_tokens' =
       IF dbOk /\ refresh_tokens[t].row
       THEN [refresh_tokens EXCEPT ![t].revoked = TRUE]
       ELSE refresh_tokens
  /\ response' = [NoResponse EXCEPT !.endpoint = "signout",
                                    !.status = IF dbOk THEN 200 ELSE 500,
                                    !.threw = ~dbOk]
  /\ UNCHANGED <<srvNow, refreshCall>>
  /\ SrvFrame

\* verifyRefreshToken: jwtVerify accepts a token this server has signed
\* whose exp claim is still ahead
verifyRefreshToken(t) == refresh_tokens[t].issued /\ srvNow < refresh_tokens[t].exp

\* the token has been revoked, or the expiry of its row has passed
Dead(t) ==
  /\ refresh_tokens[t].issued
  /\ refresh_tokens[t].revoked \/ srvNow > refresh_tokens[t].expires_at

RefreshResponse401(t, dead) == [NoResponse EXCEPT !.endpoint = "refresh", !.token = t, !.status = 401, !.dead = dead]

RefreshResponse500(t, dead) ==
  [NoResponse EXCEPT !.endpoint = "refresh", !.token = t, !.status = 500, !.dead = dead, !.threw = TRUE]

RefreshResponse200(t, dead) ==
  [NoResponse EXCEPT !.endpoint = "refresh", !.token = t, !.status = 200, !.access = TRUE, !.dead = dead]

\* the refresh endpoint up to its SELECT: 401 for a token that does not
\* verify, 500 when the SELECT throws
RefreshPOST(t, dbOk) ==
  /\ refreshCall.pc = "idle"
  /\ IF ~verifyRefreshToken(t)
     THEN /\ response' = RefreshResponse401(t, Dead(t))
          /\ refreshCall' = refreshCall
     ELSE IF ~dbOk
     THEN /\ response' = RefreshResponse500(t, Dead(t))
          /\ refreshCall' = refreshCall
     ELSE /\ response' = response
          /\ refreshCall' = [pc |-> "selected", token |-> t,
                             found |-> refresh_tokens[t].row,
                             revoked |-> refresh_tokens[t].revoked,
                             expires_at |-> refresh_tokens[t].expires_at,
                             dead |-> Dead(t)]
  /\ UNCHANGED <<refresh_tokens, srvNow>>
  /\ SrvFrame

\* the checks of the refresh endpoint on the selected row, in the order of
\* the code, without the check of revoked_at
refreshOutcome_NoRevoked(call) ==
  IF ~call.found THEN "notFound"
  ELSE IF call.expires_at < srvNow THEN "expired"
  ELSE "ok"

\* the checks of the refresh endpoint on the selected row, in the order of
\* the code
refreshOutcome(call) ==
  IF ~call.found THEN "notFound"
  ELSE IF call.revoked THEN "revoked"
  ELSE IF call.expires_at < srvNow THEN "expired"
  ELSE "ok"

\* the refresh endpoint after its SELECT: 401 without a row, with a revoked
\* row and with an expired row (which it deletes; 500 when the DELETE
\* throws), else 200 with a new access token
RefreshPOSTReturn(dbOk) ==
  /\ refreshCall.pc = "selected"
  /\ LET o == refreshOutcome(refreshCall)
         t == refreshCall.token
     IN /\ refresh_tokens' =
             IF o = "expired" /\ dbOk
             THEN [refresh_tokens EXCEPT ![t].row = FALSE]
             ELSE refresh_tokens
        /\ response' =
             IF o = "ok" THEN RefreshResponse200(t, refreshCall.dead)
             ELSE IF o = "expired" /\ ~dbOk THEN RefreshResponse500(t, refreshCall.dead)
             ELSE RefreshResponse401(t, refreshCall.dead)
  /\ refreshCall' = NoRefreshCall
  /\ UNCHANGED srvNow
  /\ SrvFrame

SrvNext ==
  \/ SrvTimePasses
  \/ \E t \in RTokens, life \in JwtLifes : LoginPOST(t, life)
  \/ \E t \in RTokens, dbOk \in BOOLEAN : SignoutPOST(t, dbOk)
  \/ \E t \in RTokens, dbOk \in BOOLEAN : RefreshPOST(t, dbOk)
  \/ \E dbOk \in BOOLEAN : RefreshPOSTReturn(dbOk)

\* ------------------------------------------------------- specifications
\* the document is shown when the application is loaded
Init == StoreInit /\ AuthInit /\ PureInit /\ GistInit /\ SubInit /\ SrvInit /\ hidden = FALSE

Next == StoreNext

Spec == Init /\ [][Next]_vars

NextAuth == AuthNext

SpecAuth == Init /\ [][NextAuth]_vars

\* the table another device has written before this one is first loaded:
\* empty, or one row in either list
InitSync ==
  /\ ClientInit /\ AuthInit /\ PureInit /\ GistInit /\ SubInit /\ SrvInit /\ hidden = FALSE
  /\ \/ ServerInit
     \/ /\ \E l \in ListTypes :
             db = {[id |-> 1, list |-> l, title |-> "Dune", updatedAt |-> 1]}
        /\ nextId = 2
        /\ clock = 1
        /\ modifiedAt = <<1>>

NextSync == SyncNext

SpecSync == InitSync /\ [][NextSync]_vars

NextSession == SessionNext

SpecSession == Init /\ [][NextSession]_vars

NextLive == LiveNext

SpecLive == InitSync /\ [][NextLive]_vars /\ LiveFairness

NextMix == MixNext

SpecMix == Init /\ [][NextMix]_vars

\* the application may be loaded in a tab that is not shown
InitMgr == StoreInit /\ AuthInit /\ PureInit /\ GistInit /\ SubInit /\ SrvInit /\ hidden \in BOOLEAN

NextMgr == MgrNext

SpecMgr == InitMgr /\ [][NextMgr]_vars

\* the records two devices hold when one merges the snapshot of the other
InitMerge ==
  /\ StoreInit /\ AuthInit /\ GistInit /\ SubInit /\ SrvInit /\ hidden = FALSE
  /\ localBacklog \in GistArrays
  /\ remoteBacklog \in GistArrays
  /\ mergedBacklog = <<>>
  /\ mergePc = "none"
  /\ storedItem = AbsentItem
  /\ loaded = <<>>
  /\ loadPc = "none"

NextMerge == MergeNext

SpecMerge == InitMerge /\ [][NextMerge]_vars

\* whatever localStorage holds under the list's key when the application
\* is loaded
InitLoad ==
  /\ StoreInit /\ AuthInit /\ GistInit /\ SubInit /\ SrvInit /\ hidden = FALSE
  /\ localBacklog = <<>>
  /\ remoteBacklog = <<>>
  /\ mergedBacklog = <<>>
  /\ mergePc = "none"
  /\ storedItem \in Items
  /\ loaded = <<>>
  /\ loadPc = "none"

NextLoad == LoadNext

SpecLoad == InitLoad /\ [][NextLoad]_vars

NextSub == SubNext

SpecSub == Init /\ [][NextSub]_vars

NextGist == GistNext

SpecGist == Init /\ [][NextGist]_vars

NextSrv == SrvNext

SpecSrv == Init /\ [][NextSrv]_vars

\* ------------------------------------------------------------ properties
\* number of records of a list's cache that carry an identifier
CountId(l, id) == Cardinality({i \in 1..Len(cache[l]) : cache[l][i].id = id})

\* the step is the return of mutation call c (the code after its await)
CallReturns(c) == calls[c].pc = "replied" /\ calls'[c].pc = "idle"

\* the step issues mutation call c (the code before its await)
CallIssued(c) == calls[c].pc = "idle" /\ calls'[c].pc = "sent"

\* C1: in every reachable state no list's cache holds two records with the
\* same identifier
C1_UniqueIds ==
  \A l \in ListTypes : \A i, j \in 1..Len(cache[l]) :
    i # j => cache[l][i].id # cache[l][j].id

C3_FailedCreate ==
  [][\A c \in CallIds :
       /\ (CallIssued(c) /\ calls'[c].op = "create") => cache' = cache
       /\ (CallReturns(c) /\ calls[c].op = "create" /\ calls[c].resp # "ok")
            => (cache' = cache /\ outcome'.op = "create" /\ outcome'.result = "error")]_vars

C3_Witness == outcome.op = "create" /\ outcome.result = "error"

C6_CreatedOnce ==
  (outcome.op = "create" /\ outcome.result = "ok")
    => CountId(outcome.list, outcome.id) = 1

\* C7: a call of authenticatedFetch calls the refresh endpoint at most once
\* and re-issues its request at most once; a finished call that received a
\* 401 while a refresh token was stored has refreshed exactly once, and has
\* retried exactly once if and only if the refresh returned a token
C7_OneRefreshOneRetry ==
  \A a \in AfIds :
    /\ af[a].nRefresh <= 1 /\ af[a].nRetry <= 1
    /\ af[a].nRetry = 1 => (af[a].nRefresh = 1 /\ af[a].refreshResp = "token")
    /\ (af[a].pc = "done" /\ af[a].sawRefresh)
         => (af[a].nRefresh = 1 /\ (af[a].nRetry = 1 <=> af[a].refreshResp = "token"))

\* the retried request was answered 401 again and the call ended there
C7_Witness ==
  \E a \in AfIds :
    /\ af[a].pc = "done" /\ af[a].status0 = "401" /\ af[a].status = "401"
    /\ af[a].nRefresh = 1 /\ af[a].nRetry = 1 /\ af[a].result = "response"

\* the step handles a rejected (or failed) refresh call of a
AfRefreshRejected(a) ==
  /\ af[a].pc = "refreshed" /\ af[a].refreshResp \in {"rejected", "network"}
  /\ af'[a].pc # "refreshed"

\* the step handles a 401 of a's original request with no refresh token stored
AfNoRefreshToken(a) ==
  /\ af[a].pc = "replied" /\ af[a].status = "401" /\ refreshToken = NoToken
  /\ af'[a].pc # "replied"

\* C8: when the refresh is rejected, or a 401 arrives with no refresh token
\* stored, both tokens are removed, the request is not re-issued and the
\* call throws
C8_RefreshFailureClears ==
  [][\A a \in AfIds :
       (AfRefreshRejected(a) \/ AfNoRefreshToken(a))
         => /\ accessToken' = NoToken /\ refreshToken' = NoToken
            /\ af'[a].pc = "done" /\ af'[a].result = "thrown"
            /\ af'[a].nRetry = 0]_vars

C8_Witness ==
  \E a \in AfIds :
    /\ af[a].pc = "done" /\ af[a].result = "thrown" /\ af[a].refreshResp = "rejected"
    /\ af[a].hdr0 # NoToken /\ accessToken = NoToken /\ refreshToken = NoToken

\* C9: the step that handles a successful refresh stores the returned
\* access token, leaves the refresh token alone and re-issues the request
\* with the new token, which is not the token of the original request
C9_RefreshStoresToken ==
  [][\A a \in AfIds :
       (af[a].pc = "refreshed" /\ af[a].refreshResp = "token" /\ af'[a].pc # "refreshed")
         => /\ accessToken' = af[a].newTok
            /\ refreshToken' = refreshToken
            /\ af'[a].pc = "retrying"
            /\ af'[a].hdr = af[a].newTok /\ af'[a].hdr # af[a].hdr0]_vars

C9_Witness ==
  \E a \in AfIds :
    /\ af[a].pc = "retrying" /\ af[a].hdr = af[a].newTok /\ accessToken = af[a].newTok
    /\ af[a].hdr # af[a].hdr0 /\ refreshToken # NoToken

\* C10: a step in which no pull of list l returns successfully leaves the
\* 'since' value of l's next pull as it was
C10_CursorPerList ==
  [][\A l \in ListTypes :
       (~ \E s \in SyncIds : syncs[s].pc = "replied" /\ syncs[s].list = l
                              /\ syncs'[s].pc = "returned")
         => performSyncSince(l)' = performSyncSince(l)]_vars

\* ---- steps of a pull (one iteration of syncAll's loop in run s)
\* the request of a pull is sent
PullStarts(s) == syncs[s].pc \in {"idle", "returned", "threw"} /\ syncs'[s].pc = "sent"

\* the endpoint answers the request of a pull
PullAnswered(s) ==
  syncs[s].pc = "sent" /\ syncs'[s].pc = "replied" /\ syncs'[s].resp = "ok"

\* performSync returns the entries of an OK response
PullReturns(s) == syncs[s].pc = "replied" /\ syncs'[s].pc = "returned"

\* performSync throws
PullThrows(s) == syncs[s].pc = "replied" /\ syncs'[s].pc = "threw"

\* the iteration ends: the merge, or the catch block
PullEnds(s) == syncs[s].pc \in {"returned", "threw"} /\ syncs'[s] # syncs[s]

\* the iteration ends with the response merged and saved
PullMerges(s) ==
  PullEnds(s) /\ syncs[s].pc = "returned" /\ pullOutcome'.result = "ok"

\* C11: a pull of a list no pull of which has returned yet is answered with
\* all rows of the list, its return sets lastSyncTime to the serverTime of
\* the response, and its merge into an empty cache leaves the cache with
\* exactly the records of the response
C11_FirstPullComplete ==
  [][\A s \in SyncIds :
       /\ (PullAnswered(s) /\ syncs[s].list \notin pulled)
            => Range(syncs'[s].entries) = RowsOf(syncs[s].list)
       /\ PullReturns(s) => lastSyncTime' = syncs[s].serverTime
       /\ (PullMerges(s) /\ cache[syncs[s].list] = <<>>)
            => Range(cache'[syncs[s].list]) = Range(syncs[s].entries)]_vars

\* C12: a pull is sent without 'since' exactly when no pull of its list has
\* returned before, and otherwise with the stored time; the answer holds all
\* rows of the list when 'since' is absent, and exactly the rows of the list
\* with updated_at > since otherwise
C12_SinceIffCursor ==
  [][\A s \in SyncIds :
       /\ PullStarts(s)
            => /\ (syncs'[s].since = 0) <=> (syncs'[s].list \notin pulled)
               /\ syncs'[s].since = lastSyncTime
       /\ PullAnswered(s)
            => Range(syncs'[s].entries) =
                 IF syncs[s].since = 0 THEN RowsOf(syncs[s].list)
                 ELSE {r \in RowsOf(syncs[s].list) : r.updatedAt > syncs[s].since}]_vars

\* C13: the merge of a pull leaves the cache of the list with every record
\* of the response, once, under its id; with every cached record whose id is
\* not in the response, as it was; with no other record; and it leaves the
\* cache of the other list alone
C13_MergeById ==
  [][\A s \in SyncIds : PullMerges(s) =>
       LET l == syncs[s].list
           es == syncs[s].entries
       IN /\ \A r \in Range(es) :
               /\ r \in Range(cache'[l])
               /\ Cardinality({i \in 1..Len(cache'[l]) : cache'[l][i].id = r.id}) = 1
          /\ \A e \in Range(cache[l]) : e.id \notin Ids(es) => e \in Range(cache'[l])
          /\ Ids(cache'[l]) = Ids(cache[l]) \cup Ids(es)
          /\ \A k \in ListTypes \ {l} : cache'[k] = cache[k]]_vars

\* C14: lastSyncTime changes only in the step in which performSync returns
\* an OK response, and is then the serverTime of that response
C14_CursorIsServerTime ==
  [][/\ \A s \in SyncIds : PullReturns(s) => lastSyncTime' = syncs[s].serverTime
     /\ lastSyncTime' # lastSyncTime => \E s \in SyncIds : PullReturns(s)]_vars

\* a pull returned with a serverTime later than the start of the behaviour
C14_Witness ==
  \E s \in SyncIds :
    /\ syncs[s].pc = "returned" /\ syncs[s].serverTime > 1
    /\ lastSyncTime = syncs[s].serverTime

\* C15: a pull that fails (performSync throws, or the iteration ends in the
\* catch block) changes neither lastSyncTime nor the cache, and an iteration
\* that ends in the catch block has not stored the serverTime of its
\* response (it is not past the return of performSync)
C15_FailedPullLeavesAll ==
  [][\A s \in SyncIds :
       /\ PullThrows(s) => (lastSyncTime' = lastSyncTime /\ cache' = cache)
       /\ (PullEnds(s) /\ pullOutcome'.result = "error")
            => /\ lastSyncTime' = lastSyncTime /\ cache' = cache
               /\ syncs[s].pc = "threw"]_vars

\* the request of a pull is awaited or answered
InFlight(s) == syncs[s].pc \in {"sent", "replied"}

\* C16: no two syncAll runs have a pull of the same list in flight
C16_OnePullPerList ==
  \A s1, s2 \in SyncIds :
    (s1 # s2 /\ InFlight(s1) /\ InFlight(s2)) => syncs[s1].list # syncs[s2].list

\* C17: a timer tick while the document is hidden starts no pull, and a
\* change of the document from hidden to shown while the background sync
\* runs starts a syncAll run over both lists
C17_TimerOnlyVisible ==
  [][/\ (trigger' = "timer" /\ hidden) => syncs' = syncs
     /\ (hidden /\ ~hidden' /\ syncInterval)
          => \E s \in SyncIds :
               /\ syncs[s].pc = "idle" /\ syncs'[s].pc = "sent"
               /\ {syncs'[s].list} \cup Range(syncs'[s].todo) = ListTypes]_vars

\* C18: the step that ends a pull calls the list's listeners (or tells the
\* hook of new data) if and only if it changes the cache of the list
C18_NotifyIffChanged ==
  [][\A s \in SyncIds : (PullEnds(s) /\ syncs[s].pc = "returned") =>
       LET l == syncs[s].list
       IN (l \in notified' \/ (pullOutcome'.onSync /\ pullOutcome'.hasNewData))
            <=> cache'[l] # cache[l]]_vars

\* C19: a pull sent with a 'since' later than updated_at of every row is
\* answered with no entries, and the merge of an answer without entries to
\* a pull sent with 'since' leaves the cache as it was
C19_NothingNew ==
  [][\A s \in SyncIds :
       /\ (PullAnswered(s) /\ syncs[s].since # 0
             /\ \A r \in db : r.updatedAt < syncs[s].since)
            => syncs'[s].entries = <<>>
       /\ (PullMerges(s) /\ syncs[s].since # 0 /\ syncs[s].entries = <<>>)
            => cache' = cache]_vars

\* a pull sent with a 'since' later than every row's updated_at returned no
\* entries while the list has rows and the cache has records
C19_Witness ==
  \E s \in SyncIds :
    /\ syncs[s].pc = "returned" /\ syncs[s].since # 0 /\ syncs[s].entries = <<>>
    /\ RowsOf(syncs[s].list) # {} /\ cache[syncs[s].list] # <<>>
    /\ \A r \in db : r.updatedAt < syncs[s].since

\* C20: a pull sent with 'since' is answered with every row of the list that
\* the update endpoint wrote after 'since', and its merge leaves every
\* record of the answer in the cache
C20_UpdateIsPulled ==
  [][\A s \in SyncIds :
       /\ (PullAnswered(s) /\ syncs[s].since # 0)
            => \A r \in RowsOf(syncs[s].list) :
                 (modifiedAt[r.id] > syncs[s].since /\ modifiedAt[r.id] # r.updatedAt)
                   => r \in Range(syncs'[s].entries)
       /\ PullMerges(s)
            => Range(syncs[s].entries) \subseteq Range(cache'[syncs[s].list])]_vars

\* ---- mergeEntries
\* the record of an array that carries an id
VersionOf(a, id) == a[FindIndex(a, id)]

\* C21: the merge of the local records with the remote ones holds, for
\* every id of either side, exactly one record with that id and no other
\* record: the version written later when both sides have the id, and the
\* only version when one side has it
C21_LaterVersionWins ==
  mergePc = "merged" =>
    /\ Ids(mergedBacklog) = Ids(localBacklog) \cup Ids(remoteBacklog)
    /\ \A i, j \in 1..Len(mergedBacklog) : i # j => mergedBacklog[i].id # mergedBacklog[j].id
    /\ \A id \in Ids(mergedBacklog) :
         LET m == VersionOf(mergedBacklog, id) IN
           IF id \in Ids(localBacklog) /\ id \in Ids(remoteBacklog)
           THEN LET a == VersionOf(localBacklog, id)
                    b == VersionOf(remoteBacklog, id)
                IN /\ m \in {a, b}
                   /\ a.modifiedAt > b.modifiedAt => m = a
                   /\ b.modifiedAt > a.modifiedAt => m = b
           ELSE IF id \in Ids(localBacklog) THEN m = VersionOf(localBacklog, id)
           ELSE m = VersionOf(remoteBacklog, id)

\* C22: merging the local records with the result of their merge with the
\* remote ones returns that result again
C22_MergeIdempotent ==
  [][(mergePc = "merged" /\ mergePc' = "again") => mergedBacklog' = mergedBacklog]_vars

\* the merge was applied twice to arrays of which each has a record the
\* other lacks and the remote one has a later version of a shared record
C22_Witness ==
  /\ mergePc = "again"
  /\ Ids(localBacklog) \ Ids(remoteBacklog) # {}
  /\ Ids(remoteBacklog) \ Ids(localBacklog) # {}
  /\ \E id \in Ids(localBacklog) \cap Ids(remoteBacklog) :
       /\ VersionOf(remoteBacklog, id).createdAt > VersionOf(localBacklog, id).createdAt
       /\ VersionOf(mergedBacklog, id) = VersionOf(remoteBacklog, id)

\* C23: when the two versions of every shared id were written at different
\* times, merging with the sides exchanged gives the same records
C23_MergeCommutative ==
  (/\ mergePc = "swapped"
   /\ \A id \in Ids(localBacklog) \cap Ids(remoteBacklog) :
        VersionOf(localBacklog, id).modifiedAt # VersionOf(remoteBacklog, id).modifiedAt)
    => Range(mergedBacklog) = Range(mergeEntries(localBacklog, remoteBacklog))

\* ---- the backup to a gist
\* C24: the backup store never holds more than one gist created by pushes
C24_CreatedOnce == gists <= 1

\* C25: the pending flag is set exactly when the push attempt that ended
\* last failed for want of a connection, a push that fails returns, and the
\* start of the application with the flag set, a token and no push running
\* starts a push
C25_PendingRetried ==
  [][/\ isSyncPending' <=> lastPush' = "network"
     /\ (trigger' = "gistinit" /\ isSyncPending /\ getGitHubToken
           /\ \A p \in PushIds : pushes[p].pc = "idle")
          => \E p \in PushIds : pushes'[p].pc = "sent"]_vars

\* C26: every step that saves a changed record array of a list (the
\* return of a mutation, of a full fetch, or the merge of a pull) invokes
\* the listeners of that list, which read the array back
C26_SaveNotifies ==
  [][\A l \in ListTypes : cache'[l] # cache[l] => l \in notified']_vars

\* ---- loadEntries
\* the item is not the JSON text of an array of records
Corrupt(data) ==
  \/ data.kind \in {"unparseable", "null", "junk"}
  \/ data.kind = "array" /\ \E i \in 1..Len(data.elems) : data.elems[i].kind # "entry"

\* C27: loadEntries on a corrupt item returns the empty array and does
\* not throw
C27_CorruptLoadsEmpty ==
  (loadPc # "none" /\ Corrupt(storedItem)) => (loadPc = "returned" /\ loaded = <<>>)

\* C28: every record in the cache of a list carries that list
C28_TagIsList ==
  \A l \in ListTypes : \A e \in Range(cache[l]) : e.list = l

\* C29: when the other devices have stopped writing and pulls keep
\* succeeding, the cache of every list comes to hold exactly the rows of
\* the list and keeps holding them
C29_Converges ==
  <>[](\A l \in ListTypes : Range(cache[l]) = RowsOf(l))

\* a step of authSignout
SignoutStep ==
  AuthSignoutCall \/ \E answered \in BOOLEAN : AuthSignoutReturn(answered)

\* a step of authenticatedFetch that handles a refresh the server rejected,
\* or a 401 when no refresh token is stored
IrrecoverableStep ==
  \E a \in AfIds :
    \/ af[a].pc = "refreshed" /\ af[a].refreshResp = "rejected" /\ af'[a].pc = "done"
    \/ /\ af[a].pc = "replied" /\ af[a].status = "401"
       /\ refreshToken = NoToken /\ af'[a].pc = "done"

\* C30: a step that removes a stored token is a step of sign-out, or the
\* handling of a rejected refresh or of a 401 without a refresh token; no
\* other step (a transport error, another status) removes one
C30_ClearedOnlyBy ==
  [][(\/ accessToken # NoToken /\ accessToken' = NoToken
      \/ refreshToken # NoToken /\ refreshToken' = NoToken)
     => (SignoutStep \/ IrrecoverableStep)]_vars

\* ---- the expiry of the backup token
\* a step that starts a push
PushStarts == trigger' \in {"push", "pushExpired"}

\* C31: a push started when no token is stored, or when the clock is at or
\* past the stored expiry, sends no request and ends as not authenticated,
\* and neither the token nor its expiry is stored afterwards
C31_ExpiredTokenAbsent ==
  [][(PushStarts /\ (githubToken = "none" \/ now >= tokenExpiry))
     => /\ pushes' = pushes
        /\ lastPush' = "unauthenticated"
        /\ githubToken' = "none"
        /\ tokenExpiry' = NoExpiry]_vars

\* a push found a stored token at the instant of its expiry
C31_Witness ==
  /\ trigger = "pushExpired"
  /\ lastPush = "unauthenticated"
  /\ githubToken = "none" /\ tokenExpiry = NoExpiry
  /\ now = 1

\* ---- errors of the mutation endpoints
\* C32: when a mutation returns to its caller after an answer that carries
\* an error (a 400, a 404 or a 500), the server has handled one request of
\* the call and the error thrown has the message of the answer
C32_ErrorVerbatimOnce ==
  [][\A c \in CallIds :
       (calls[c].pc = "replied" /\ calls[c].resp = "error" /\ calls'[c].pc = "idle")
         => /\ calls[c].requests = 1
            /\ outcome'.result = "error"
            /\ outcome'.requests = 1
            /\ outcome'.error = calls[c].error]_vars

\* an update was answered 400 and threw the message of the answer
C32_Witness ==
  /\ outcome.op = "update" /\ outcome.result = "error"
  /\ outcome.error = BadRequest("update")
  /\ outcome.requests = 1

\* ---- the deviceId of the sync state
\* C33: a stored deviceId never changes, and a stored sync state stays
\* stored; one is stored by the step that first reads the sync state
C33_DeviceIdMintedOnce ==
  [][/\ deviceId # NoDevice => deviceId' = deviceId
     /\ (\E s \in SyncIds : syncs'[s].pc = "sent" /\ syncs[s].pc # "sent")
          => deviceId' # NoDevice]_vars

\* the sync state has gone through a pull that returned and a pull that
\* threw, and a further pull has been started
C33_Witness ==
  /\ deviceId # NoDevice
  /\ lastSyncTime # 0
  /\ \E s \in SyncIds : syncs[s].pc = "threw"
  /\ \E s \in SyncIds : syncs[s].pc = "sent"

\* ---- subscriptions
\* the callbacks a list's registry holds
Registered(ls) == UNION {Range(ls[l]) : l \in ListTypes}

\* the callbacks a step invokes: the new one of a subscribeToEntries, or
\* the ones notifyListeners invokes for the lists the step notifies
InvokedBy ==
  IF callbacks' # callbacks THEN callbacks' \ callbacks
  ELSE UNION {notifyListeners(l) : l \in notified'}

\* C34: subscribeToEntries invokes the new callback at once with the
\* entries of its list, newest first, and registers it behind the others of
\* its list; a callback is invoked for its own list only and only while
\* registered; unsubscribing removes that one callback from the registry
\* and nothing else, and it is never registered again
C34_SubscribeContract ==
  [][/\ callbacks' # callbacks
          => \E cb \in callbacks' \ callbacks :
               /\ callbacks' = callbacks \cup {cb}
               /\ delivered' = [callback |-> cb,
                                entries |-> wrappedCallback(cache[cb.list])]
               /\ listeners' = [listeners EXCEPT ![cb.list] = Append(@, cb)]
     /\ \A cb \in InvokedBy :
          /\ cb \in Range(listeners'[cb.list])
          /\ callbacks' = callbacks => cb.list \in notified'
     /\ (callbacks' = callbacks /\ listeners' # listeners)
          => \E cb \in Registered(listeners) :
               \A l \in ListTypes :
                 listeners'[l] = SelectSeq(listeners[l], LAMBDA c : c # cb)
     /\ \A cb \in callbacks \ Registered(listeners) : cb \notin Registered(listeners')]_vars

\* listeners of a list were notified of a created entry while a callback
\* of the list that has unsubscribed was not, and another still is
\* registered
C34_Witness ==
  /\ notified # {}
  /\ \E l \in notified :
       /\ \E cb \in callbacks \ Registered(listeners) : cb.list = l
       /\ listeners[l] # <<>>

\* ---- responses that arrive after a mutation has returned
\* C35: an entry whose addEntry has returned, and for which no deleteEntry
\* has been called, is in the cache of its list
C35_CreatedStays ==
  \A e \in kept : e.id \in Ids(cache[e.list])

\* C36: an identifier whose deleteEntry has returned is in no cache
C36_DeletedStaysAbsent ==
  \A l \in ListTypes : Ids(cache[l]) \cap deleted = {}

\* C37: no step moves lastSyncTime backwards
C37_CursorMonotonic ==
  [][lastSyncTime' >= lastSyncTime]_vars

\* ---- the timer and the listener of the background sync
\* C38: at most one interval and at most one visibilitychange listener are
\* active, none is while the background sync is stopped, and no step taken
\* while it is stopped is a tick of the timer
C38_OneTimerOneListener ==
  [][/\ timers' <= 1 /\ visListeners' <= 1
     /\ ~syncInterval' => (timers' = 0 /\ visListeners' = 0)
     /\ ~syncInterval => trigger' # "timer"]_vars

\* the background sync was started while it was running (two of its pulls
\* are in flight), and later it was stopped
C38_Witness ==
  /\ trigger = "stop"
  /\ timers = 0 /\ visListeners = 0
  /\ \A s \in SyncIds : syncs[s].pc # "idle" /\ syncs[s].onSync

\* C39: while the background sync runs, isPageVisible says whether the
\* document is shown
C39_FlagMatchesHost ==
  syncInterval => (isPageVisible = ~hidden)

\* ---- the server's refresh endpoint
\* C40: a refresh request received when the token it presents was revoked
\* or past the expiry of its row is answered without an access token, with
\* status 401, or 500 when a statement on the table throws
C40_DeadTokenRefused ==
  (response.endpoint = "refresh" /\ response.dead)
    => /\ ~response.access
       /\ response.status \in {401, 500}
       /\ response.status = 500 <=> response.threw

\* C40 as stated: every such request is answered 401
C40_DeadTokenAlways401 ==
  (response.endpoint = "refresh" /\ response.dead)
    => (~response.access /\ response.status = 401)

\* a refresh request presenting a revoked token was answered 401 after the
\* SELECT of its row
C40_Witness ==
  /\ response.endpoint = "refresh" /\ response.dead /\ response.status = 401
  /\ refresh_tokens[response.token].revoked
  /\ verifyRefreshToken(response.token)

====
